---- MODULE Spec2Model ----
(***************************************************************************)
(* Markdown parsing and rendering engine of discord-chat-exporter-py.      *)
(*                                                                         *)
(* A text is a sequence of characters; a character is a one-element        *)
(* string, and a code point outside ASCII is written by its name           *)
(* ("U+2600").  Offsets are 0-based as in the source, so the character at  *)
(* offset p of a text s is s[p + 1].  Python's None is the empty sequence  *)
(* where the value is a string or an integer, and the empty string where   *)
(* it is a one-letter code.  Integers parsed from the text are kept as     *)
(* canonical digit sequences (Python's int has no width).                  *)
(***************************************************************************)
EXTENDS Integers, Sequences, FiniteSets, TLC

(***************************************************************************)
(* Character classes of Python's re (str patterns).                        *)
(***************************************************************************)
Digits == {"0", "1", "2", "3", "4", "5", "6", "7", "8", "9"}

AsciiLetters == {"a", "b", "e", "f", "h", "n", "o", "p", "r", "s", "t", "u",
                 "v", "x", "y", "D", "F", "R", "T", "U", "k", "w", "c", "d",
                 "g", "i", "l", "m"}

\* \w : letters, digits and the underscore
WordChars == AsciiLetters \cup Digits \cup {"_"}

\* \s
WhiteSpace == {" ", "\n", "\t", "\r"}

(***************************************************************************)
(* Regular expressions, as trees.                                          *)
(***************************************************************************)
Lit(c) == [t |-> "lit", c |-> c]
\* a character class: [..] and, negated, [^..]
Set(s) == [t |-> "set", s |-> s, neg |-> FALSE]
NotSet(s) == [t |-> "set", s |-> s, neg |-> TRUE]
\* . without DOTALL, and with it
Dot == NotSet({"\n"})
DotAll == NotSet({})
Cat(a) == [t |-> "cat", a |-> a]
Alt(a) == [t |-> "alt", a |-> a]
\* r{min,max}; max = -1 is no upper limit; lazy is the ? suffix
Rep(r, min, max, lazy) == [t |-> "rep", r |-> r, min |-> min, max |-> max, lazy |-> lazy]
Star(r) == Rep(r, 0, -1, FALSE)
Plus(r) == Rep(r, 1, -1, FALSE)
PlusLazy(r) == Rep(r, 1, -1, TRUE)
Opt(r) == Rep(r, 0, 1, FALSE)
\* capture group n
Grp(n, r) == [t |-> "grp", n |-> n, r |-> r]
\* ^ under MULTILINE
Bol == [t |-> "bol"]
\* (?=r) and (?!r)
NotAhead(r) == [t |-> "la", r |-> r, neg |-> TRUE]
\* (?<!c) for one character of the set s
NotBehind(s) == [t |-> "lb", s |-> s, neg |-> TRUE]
\* \n as a back-reference
Ref(n) == [t |-> "ref", n |-> n]
\* $ without MULTILINE
Eol == [t |-> "eol"]

NoGroup == <<-1, -1>>
NoGroups == <<NoGroup, NoGroup, NoGroup>>

\* the operand of a search: the string, and endpos ("as if the string is endpos characters long")
Subject(source, endpos) == [source |-> source, endpos |-> endpos]

RECURSIVE M(_, _, _, _), MCat(_, _, _, _, _), MEach(_, _, _, _, _, _), MAlt(_, _, _, _, _)
RECURSIVE MRep(_, _, _, _, _), MRepEach(_, _, _, _, _, _, _)

(***************************************************************************)
(* M(cx, r, p, g): every way r matches at offset p with groups g, as the   *)
(* sequence of [p: end offset, g: groups] in the order a backtracking      *)
(* matcher tries them.                                                     *)
(***************************************************************************)
MRef(cx, r, p, g) ==
    LET s == g[r.n][1]
        e == g[r.n][2]
    IN  IF s >= 0 /\ p + (e - s) <= cx.endpos
           /\ \A k \in 1..(e - s) : cx.source[p + k] = cx.source[s + k]
        THEN <<[p |-> p + (e - s), g |-> g]>>
        ELSE <<>>

\* the character at offset j - 1 is one that r, a literal or a class, matches
CharOk(cx, r, j) ==
    IF r.t = "lit" THEN cx.source[j] = r.c ELSE (cx.source[j] \in r.s) # r.neg

\* a repetition of one literal or class: the offsets its run of characters from p can end at,
\* the longest first, or the shortest first when lazy
MRepChars(cx, r, p, g) ==
    LET limit == IF r.max = -1 \/ p + r.max > cx.endpos THEN cx.endpos ELSE p + r.max
        top == CHOOSE j \in p..limit :
                  /\ j = limit \/ ~CharOk(cx, r.r, j + 1)
                  /\ \A i \in (p + 1)..j : CharOk(cx, r.r, i)
        low == p + r.min
    IN  IF top < low THEN <<>>
        ELSE [i \in 1..(top - low + 1) |->
                [p |-> IF r.lazy THEN low + i - 1 ELSE top - i + 1, g |-> g]]

M(cx, r, p, g) ==
    CASE r.t = "lit" ->
           IF p < cx.endpos /\ cx.source[p + 1] = r.c
           THEN <<[p |-> p + 1, g |-> g]>> ELSE <<>>
      [] r.t = "set" ->
           IF p < cx.endpos /\ ((cx.source[p + 1] \in r.s) # r.neg)
           THEN <<[p |-> p + 1, g |-> g]>> ELSE <<>>
      [] r.t = "cat" -> MCat(cx, r.a, 1, p, g)
      [] r.t = "alt" -> MAlt(cx, r.a, 1, p, g)
      [] r.t = "rep" ->
           IF r.r.t \in {"lit", "set"} THEN MRepChars(cx, r, p, g) ELSE MRep(cx, r, 0, p, g)
      [] r.t = "grp" ->
           LET rs == M(cx, r.r, p, g)
           IN  [k \in 1..Len(rs) |->
                  [p |-> rs[k].p, g |-> [rs[k].g EXCEPT ![r.n] = <<p, rs[k].p>>]]]
      [] r.t = "bol" ->
           IF p = 0 \/ cx.source[p] = "\n"
           THEN <<[p |-> p, g |-> g]>> ELSE <<>>
      [] r.t = "la" ->
           IF (M(cx, r.r, p, g) # <<>>) # r.neg
           THEN <<[p |-> p, g |-> g]>> ELSE <<>>
      [] r.t = "lb" ->
           IF (p > 0 /\ cx.source[p] \in r.s) # r.neg
           THEN <<[p |-> p, g |-> g]>> ELSE <<>>
      [] r.t = "ref" -> MRef(cx, r, p, g)
      [] r.t = "eol" ->
           IF p = cx.endpos \/ (p = cx.endpos - 1 /\ cx.source[p + 1] = "\n")
           THEN <<[p |-> p, g |-> g]>> ELSE <<>>

\* the rest of a concatenation, from each way rs[lo..hi] its head matched
MEach(cx, a, i, rs, lo, hi) ==
    IF lo > hi THEN <<>>
    ELSE IF lo = hi THEN MCat(cx, a, i, rs[lo].p, rs[lo].g)
    ELSE LET mid == (lo + hi) \div 2
         IN  MEach(cx, a, i, rs, lo, mid) \o MEach(cx, a, i, rs, mid + 1, hi)

MCat(cx, a, i, p, g) ==
    IF i > Len(a) THEN <<[p |-> p, g |-> g]>>
    ELSE LET rs == M(cx, a[i], p, g) IN MEach(cx, a, i + 1, rs, 1, Len(rs))

MAlt(cx, a, i, p, g) ==
    IF i > Len(a) THEN <<>>
    ELSE M(cx, a[i], p, g) \o MAlt(cx, a, i + 1, p, g)

\* one more iteration of a repetition, from each way rs[lo..hi] its body matched at p
MRepEach(cx, r, n, rs, lo, hi, p) ==
    IF lo > hi THEN <<>>
    ELSE IF lo = hi
         THEN (IF rs[lo].p > p THEN MRep(cx, r, n, rs[lo].p, rs[lo].g) ELSE <<>>)
    ELSE LET mid == (lo + hi) \div 2
         IN  MRepEach(cx, r, n, rs, lo, mid, p) \o MRepEach(cx, r, n, rs, mid + 1, hi, p)

\* n iterations are done
MRep(cx, r, n, p, g) ==
    LET more == IF r.max = -1 \/ n < r.max
                THEN LET rs == M(cx, r.r, p, g) IN MRepEach(cx, r, n + 1, rs, 1, Len(rs), p)
                ELSE <<>>
        stop == IF n >= r.min THEN <<[p |-> p, g |-> g]>> ELSE <<>>
    IN  IF r.lazy THEN stop \o more ELSE more \o stop

NoMatch == [start |-> -1, end |-> -1, g |-> NoGroups]

\* the match at lo that is the first of the ways rs the pattern matches there
FirstMatch(lo, rs) ==
    IF rs # <<>> THEN [start |-> lo, end |-> rs[1].p, g |-> rs[1].g] ELSE NoMatch

\* a match, or else another
OrElse(left, right) == IF left.start >= 0 THEN left ELSE right

RECURSIVE SearchFrom(_, _, _, _)
\* the leftmost match that starts in lo..hi, the first a backtracking matcher finds there
SearchFrom(cx, r, lo, hi) ==
    IF lo > hi THEN NoMatch
    ELSE IF lo = hi THEN FirstMatch(lo, M(cx, r, lo, NoGroups))
    ELSE OrElse(SearchFrom(cx, r, lo, (lo + hi) \div 2),
                SearchFrom(cx, r, (lo + hi) \div 2 + 1, hi))

\* pattern.search(source, pos, endpos)
Search(r, source, pos, endpos) == SearchFrom(Subject(source, endpos), r, pos, endpos)

\* re.match(pattern, source)
Match(r, source) == FirstMatch(0, M(Subject(source, Len(source)), r, 0, NoGroups))

\* str.find(needle, start, end)
FindFrom(source, needle, pos, end) ==
    LET At(q) == \A k \in 1..Len(needle) : source[q + k] = needle[k]
        last == end - Len(needle)
    IN  IF \E q \in pos..last : At(q)
        THEN CHOOSE q \in pos..last : At(q) /\ \A q2 \in pos..(q - 1) : ~At(q2)
        ELSE -1

(***************************************************************************)
(* The characters of the model's texts that fall in the character ranges   *)
(* the patterns name.                                                      *)
(***************************************************************************)
\* [\U0001F1E6-\U0001F1FF]
RegionalIndicators == {"U+1F1E6", "U+1F1FA"}
\* [\U0001F000-\U0001FAFF]
AstralEmoji == {"U+1F600"} \cup RegionalIndicators
\* the miscellaneous characters of _STANDARD_EMOJI_PATTERN
MiscEmoji == {"U+2600", "U+2640", "U+26A7"}
\* [\u26A7\u2640\u2642\u2695\u267E\u00A9\u00AE\u2122]
IgnoredEmoji == {"U+26A7", "U+2640", "U+00A9"}
\* the classes of _mk_escaped_symbol_text
EscapableSymbols == AstralEmoji \cup {"U+2600", "U+2640", "U+26A7", "U+20E3", "U+FE0F"}
                      \cup {"U+00A9", "U+00AF"}
\* [^a-zA-Z0-9\s]
NotAlnumSpace == NotSet(AsciiLetters \cup Digits \cup WhiteSpace)
\* \S*[^\.,:;\"'\s]
UrlTail == Cat(<<Star(NotSet(WhiteSpace)),
                 NotSet({".", ",", ":", ";", "\"", "'"} \cup WhiteSpace)>>)
\* https?://
UrlScheme == Cat(<<Lit("h"), Lit("t"), Lit("t"), Lit("p"), Opt(Lit("s")),
                   Lit(":"), Lit("/"), Lit("/")>>)

\* a literal string
LitSeq(s) == [k \in 1..Len(s) |-> Lit(s[k])]

(***************************************************************************)
(* The patterns of the matchers, by the name of the function that builds   *)
(* the matcher (_mk_<name>).                                               *)
(***************************************************************************)
Pattern(name) ==
    CASE name = "bold" ->              \* \*\*(.+?)\*\*(?!\*)
           Cat(<<Lit("*"), Lit("*"), Grp(1, PlusLazy(DotAll)), Lit("*"), Lit("*"),
                 NotAhead(Lit("*"))>>)
      [] name = "italic" ->            \* \*(?!\s)(.+?)(?<!\s|\*)\*(?!\*)
           Cat(<<Lit("*"), NotAhead(Set(WhiteSpace)), Grp(1, PlusLazy(DotAll)),
                 NotBehind(WhiteSpace \cup {"*"}), Lit("*"), NotAhead(Lit("*"))>>)
      [] name = "italic_bold" ->       \* \*(\*\*.+?\*\*)\*(?!\*)
           Cat(<<Lit("*"),
                 Grp(1, Cat(<<Lit("*"), Lit("*"), PlusLazy(DotAll), Lit("*"), Lit("*")>>)),
                 Lit("*"), NotAhead(Lit("*"))>>)
      [] name = "italic_alt" ->        \* _(.+?)_(?!\w)
           Cat(<<Lit("_"), Grp(1, PlusLazy(DotAll)), Lit("_"), NotAhead(Set(WordChars))>>)
      [] name = "underline" ->         \* __(.+?)__(?!_)
           Cat(<<Lit("_"), Lit("_"), Grp(1, PlusLazy(DotAll)), Lit("_"), Lit("_"),
                 NotAhead(Lit("_"))>>)
      [] name = "italic_underline" ->  \* _(__.+?__)_(?!_)
           Cat(<<Lit("_"),
                 Grp(1, Cat(<<Lit("_"), Lit("_"), PlusLazy(DotAll), Lit("_"), Lit("_")>>)),
                 Lit("_"), NotAhead(Lit("_"))>>)
      [] name = "strikethrough" ->     \* ~~(.+?)~~
           Cat(<<Lit("~"), Lit("~"), Grp(1, PlusLazy(DotAll)), Lit("~"), Lit("~")>>)
      [] name = "spoiler" ->           \* \|\|(.+?)\|\|
           Cat(<<Lit("|"), Lit("|"), Grp(1, PlusLazy(DotAll)), Lit("|"), Lit("|")>>)
      [] name = "single_line_quote" -> \* ^>\s(.+\n?)
           Cat(<<Bol, Lit(">"), Set(WhiteSpace),
                 Grp(1, Cat(<<Plus(Dot), Opt(Lit("\n"))>>))>>)
      [] name = "repeated_single_line_quote" ->  \* (?:^>\s(.*\n?)){2,}
           Rep(Cat(<<Bol, Lit(">"), Set(WhiteSpace),
                     Grp(1, Cat(<<Star(Dot), Opt(Lit("\n"))>>))>>), 2, -1, FALSE)
      [] name = "quote_line" ->        \* ^>\s(.*\n?)   (line_pat)
           Cat(<<Bol, Lit(">"), Set(WhiteSpace),
                 Grp(1, Cat(<<Star(Dot), Opt(Lit("\n"))>>))>>)
      [] name = "multi_line_quote" ->  \* ^>>>\s(.+)    (DOTALL)
           Cat(<<Bol, Lit(">"), Lit(">"), Lit(">"), Set(WhiteSpace), Grp(1, Plus(DotAll))>>)
      [] name = "heading" ->           \* ^(\#{1,3})\s(.+)\n
           Cat(<<Bol, Grp(1, Rep(Lit("#"), 1, 3, FALSE)), Set(WhiteSpace),
                 Grp(2, Plus(Dot)), Lit("\n")>>)
      [] name = "list" ->              \* ^(\s*)(?:[\-\*]\s(.+(?:\n\s\1.*)*)?\n?)+
           Cat(<<Bol, Grp(1, Star(Set(WhiteSpace))),
                 Plus(Cat(<<Set({"-", "*"}), Set(WhiteSpace),
                            Opt(Grp(2, Cat(<<Plus(Dot),
                                             Star(Cat(<<Lit("\n"), Set(WhiteSpace), Ref(1),
                                                        Star(Dot)>>))>>))),
                            Opt(Lit("\n"))>>))>>)
      [] name = "inline_code_block" -> \* (B{1,2})([^B]+)\1 where B is the backtick, U+0060
           Cat(<<Grp(1, Rep(Lit("U+0060"), 1, 2, FALSE)), Grp(2, Plus(NotSet({"U+0060"}))), Ref(1)>>)
      [] name = "multi_line_code_block" ->  \* BBB(?:(\w*)\n)?(.+?)BBB
           Cat(<<Lit("U+0060"), Lit("U+0060"), Lit("U+0060"),
                 Opt(Cat(<<Grp(1, Star(Set(WordChars))), Lit("\n")>>)),
                 Grp(2, PlusLazy(DotAll)), Lit("U+0060"), Lit("U+0060"), Lit("U+0060")>>)
      [] name = "user_mention" ->      \* <@!?(\d+)>
           Cat(<<Lit("<"), Lit("@"), Opt(Lit("!")), Grp(1, Plus(Set(Digits))), Lit(">")>>)
      [] name = "channel_mention" ->   \* <\#!?(\d+)>
           Cat(<<Lit("<"), Lit("#"), Opt(Lit("!")), Grp(1, Plus(Set(Digits))), Lit(">")>>)
      [] name = "role_mention" ->      \* <@&(\d+)>
           Cat(<<Lit("<"), Lit("@"), Lit("&"), Grp(1, Plus(Set(Digits))), Lit(">")>>)
      [] name = "standard_emoji" ->    \* _STANDARD_EMOJI_PATTERN
           Grp(1, Alt(<<Rep(Set(RegionalIndicators), 2, 2, FALSE),
                        Cat(<<Set(Digits), Opt(Lit("U+FE0F")), Lit("U+20E3")>>),
                        Set(AstralEmoji),
                        Set(MiscEmoji)>>))
      [] name = "coded_standard_emoji" ->  \* :([\w_]+):
           Cat(<<Lit(":"), Grp(1, Plus(Set(WordChars))), Lit(":")>>)
      [] name = "custom_emoji" ->      \* <(a)?:(.+?):(\d+?)>
           Cat(<<Lit("<"), Opt(Grp(1, Lit("a"))), Lit(":"), Grp(2, PlusLazy(Dot)), Lit(":"),
                 Grp(3, PlusLazy(Set(Digits))), Lit(">")>>)
      [] name = "auto_link" ->         \* (https?://\S*[^\.,:;\"'\s])
           Grp(1, Cat(<<UrlScheme, UrlTail>>))
      [] name = "hidden_link" ->       \* <(https?://\S*[^\.,:;\"'\s])>
           Cat(<<Lit("<"), Grp(1, Cat(<<UrlScheme, UrlTail>>)), Lit(">")>>)
      [] name = "masked_link" ->       \* \[(.+?)\]\((.+?)\)
           Cat(<<Lit("["), Grp(1, PlusLazy(Dot)), Lit("]"), Lit("("), Grp(2, PlusLazy(Dot)),
                 Lit(")")>>)
      [] name = "ignored_emoji_text" ->
           Grp(1, Set(IgnoredEmoji))
      [] name = "escaped_symbol_text" ->
           Cat(<<Lit("\\"), Grp(1, Set(EscapableSymbols))>>)
      [] name = "escaped_character_text" ->  \* \\([^a-zA-Z0-9\s])
           Cat(<<Lit("\\"), Grp(1, NotAlnumSpace)>>)
      [] name = "timestamp" ->         \* <t:(-?\d+)(?::(\w))?>
           Cat(<<Lit("<"), Lit("t"), Lit(":"),
                 Grp(1, Cat(<<Opt(Lit("-")), Plus(Set(Digits))>>)),
                 Opt(Cat(<<Lit(":"), Grp(2, Set(WordChars))>>)), Lit(">")>>)

\* item_pat of _mk_list: [\-\*]\s(.+(?:\n\s<indent>.*)*), indent being group 1 of the list match
ItemPattern(indent) ==
    Cat(<<Set({"-", "*"}), Set(WhiteSpace),
          Grp(1, Cat(<<Plus(Dot),
                       Star(Cat(<<Lit("\n"), Set(WhiteSpace), Cat(LitSeq(indent)),
                                  Star(Dot)>>))>>))>>)

\* the needles of the string matchers
Needle(name) ==
    CASE name = "everyone_mention" -> <<"@", "e", "v", "e", "r", "y", "o", "n", "e">>
      [] name = "here_mention" -> <<"@", "h", "e", "r", "e">>
      [] name = "shrug_text" ->
           <<"U+00AF", "\\", "_", "(", "U+30C4", ")", "_", "/", "U+00AF">>

(***************************************************************************)
(* Nodes (nodes.py).                                                       *)
(***************************************************************************)
TextNode(text) == [type |-> "TextNode", text |-> text]
FormattingNode(kind, children) == [type |-> "FormattingNode", kind |-> kind, children |-> children]
HeadingNode(level, children) == [type |-> "HeadingNode", level |-> level, children |-> children]
ListItemNode(children) == [type |-> "ListItemNode", children |-> children]
ListNode(items) == [type |-> "ListNode", items |-> items]
InlineCodeBlockNode(code) == [type |-> "InlineCodeBlockNode", code |-> code]
MultiLineCodeBlockNode(language, code) ==
    [type |-> "MultiLineCodeBlockNode", language |-> language, code |-> code]
\* __post_init__: no children given is one TextNode of the url
LinkNode(url, children) ==
    [type |-> "LinkNode", url |-> url,
     children |-> IF children = <<>> THEN <<TextNode(url)>> ELSE children]
MentionNode(target_id, kind) == [type |-> "MentionNode", target_id |-> target_id, kind |-> kind]
EmojiNode(id, name, is_animated) ==
    [type |-> "EmojiNode", id |-> id, name |-> name, is_animated |-> is_animated]
TimestampNode(instant, format) == [type |-> "TimestampNode", instant |-> instant, format |-> format]
TIMESTAMP_INVALID == TimestampNode(<<>>, "")

(***************************************************************************)
(* Integers read from the text.                                            *)
(***************************************************************************)
RECURSIVE StripZeros(_)
StripZeros(ds) == IF Len(ds) > 1 /\ ds[1] = "0" THEN StripZeros(Tail(ds)) ELSE ds

\* int(s) for s matching -?\d+ : the sign, if the value is not 0, and the digits without leading zeros
IntOf(s) ==
    IF s[1] = "-"
    THEN LET ds == StripZeros(Tail(s)) IN IF ds = <<"0">> THEN ds ELSE <<"-">> \o ds
    ELSE StripZeros(s)

\* Snowflake.try_parse of a string of digits; an empty string is None
try_parse(value) == IF value = <<>> THEN <<>> ELSE IntOf(value)

DigitValue(c) ==
    CASE c = "0" -> 0 [] c = "1" -> 1 [] c = "2" -> 2 [] c = "3" -> 3 [] c = "4" -> 4
      [] c = "5" -> 5 [] c = "6" -> 6 [] c = "7" -> 7 [] c = "8" -> 8 [] c = "9" -> 9

RECURSIVE DigitsLess(_, _)
\* a < b for two digit sequences of one length
DigitsLess(a, b) ==
    IF a = <<>> THEN FALSE
    ELSE IF a[1] # b[1] THEN DigitValue(a[1]) < DigitValue(b[1])
    ELSE DigitsLess(Tail(a), Tail(b))

\* a <= b for two canonical digit sequences without sign
MagnitudeLeq(a, b) == Len(a) < Len(b) \/ (Len(a) = Len(b) /\ ~DigitsLess(b, a))

\* datetime.max and datetime.min in UTC, as seconds of the epoch: 253402300799 and -62135596800
MaxEpoch == <<"2", "5", "3", "4", "0", "2", "3", "0", "0", "7", "9", "9">>
MinEpochMagnitude == <<"6", "2", "1", "3", "5", "5", "9", "6", "8", "0", "0">>

\* datetime.fromtimestamp(v, tz=timezone.utc) returns, and does not raise
IsValidEpoch(v) ==
    IF v[1] = "-" THEN MagnitudeLeq(Tail(v), MinEpochMagnitude) ELSE MagnitudeLeq(v, MaxEpoch)

(***************************************************************************)
(* Segments and matchers (parser.py).                                      *)
(***************************************************************************)
_MAX_DEPTH == 32

_Segment(source, start, length) == [source |-> source, start |-> start, length |-> length]
end(segment) == segment.start + segment.length
relocate(segment, new_start, new_length) == _Segment(segment.source, new_start, new_length)
\* source[a:b]
Slice(source, a, b) == SubSeq(source, a + 1, b)
\* _Segment.__str__
str(segment) == Slice(segment.source, segment.start, end(segment))

_ParsedMatch(segment, value) == [segment |-> segment, value |-> value]
\* a matcher's None
NoHit == _ParsedMatch(_Segment(<<>>, -1, 0), TextNode(<<>>))

_seg_from_group(segment, m, group) ==
    relocate(segment, m.g[group][1], m.g[group][2] - m.g[group][1])
\* m.group(n), None being the empty string
group(source, m, n) == IF m.g[n][1] < 0 THEN <<>> ELSE Slice(source, m.g[n][1], m.g[n][2])

\* what one call of _parse did, for the properties: the calls of the aggregate matcher and of
\* _match_all it made, and the nested calls of _parse, in the order they were made
NoLog == [aggregate |-> {}, match_all |-> {}, calls |-> <<>>]
JoinLog(a, b) == [aggregate |-> a.aggregate \cup b.aggregate,
                  match_all |-> a.match_all \cup b.match_all,
                  calls |-> a.calls \o b.calls]

\* a matcher is one matcher or the aggregate of a list of matchers
Single(name) == [aggregate |-> FALSE, matchers |-> <<name>>]
Aggregate(names) == [aggregate |-> TRUE, matchers |-> names]

_BOLD_MATCHER == Single("bold")
_UNDERLINE_MATCHER == Single("underline")

\* the matchers of markup with the plain forms listed before the combined ones
_PLAIN_FORMS_FIRST ==
    Aggregate(<<"shrug_text", "ignored_emoji_text", "escaped_symbol_text",
                "escaped_character_text",
                "bold", "italic", "underline", "italic_bold", "italic_underline",
                "italic_alt", "strikethrough", "spoiler",
                "multi_line_quote", "repeated_single_line_quote", "single_line_quote",
                "heading", "list",
                "multi_line_code_block", "inline_code_block",
                "everyone_mention", "here_mention", "user_mention", "channel_mention",
                "role_mention",
                "masked_link", "auto_link", "hidden_link",
                "standard_emoji", "custom_emoji", "coded_standard_emoji",
                "timestamp">>)

\* the matchers of markup with the single-line quote listed before the repeated one
_SINGLE_QUOTE_FIRST ==
    Aggregate(<<"shrug_text", "ignored_emoji_text", "escaped_symbol_text",
                "escaped_character_text",
                "italic_bold", "italic_underline", "bold", "italic", "underline",
                "italic_alt", "strikethrough", "spoiler",
                "multi_line_quote", "single_line_quote", "repeated_single_line_quote",
                "heading", "list",
                "multi_line_code_block", "inline_code_block",
                "everyone_mention", "here_mention", "user_mention", "channel_mention",
                "role_mention",
                "masked_link", "auto_link", "hidden_link",
                "standard_emoji", "custom_emoji", "coded_standard_emoji",
                "timestamp">>)

_NODE_MATCHER ==
    Aggregate(<<"shrug_text", "ignored_emoji_text", "escaped_symbol_text",
                "escaped_character_text",
                "italic_bold", "italic_underline", "bold", "italic", "underline",
                "italic_alt", "strikethrough", "spoiler",
                "multi_line_quote", "repeated_single_line_quote", "single_line_quote",
                "heading", "list",
                "multi_line_code_block", "inline_code_block",
                "everyone_mention", "here_mention", "user_mention", "channel_mention",
                "role_mention",
                "masked_link", "auto_link", "hidden_link",
                "standard_emoji", "custom_emoji", "coded_standard_emoji",
                "timestamp">>)

\* the minimal matcher with the matchers of markup left in
_MINIMAL_WITH_MARKUP == _NODE_MATCHER

_MINIMAL_NODE_MATCHER ==
    Aggregate(<<"everyone_mention", "here_mention", "user_mention", "channel_mention",
                "role_mention", "custom_emoji", "timestamp">>)

StringMatchers == {"everyone_mention", "here_mention", "shrug_text"}

\* the standard-emoji index, short code to character
CODE_TO_EMOJI == [c \in {<<"s", "u", "n", "n", "y">>} |-> "U+2600"]

RECURSIVE StripLeft(_, _), StripRight(_, _)
StripLeft(s, chars) == IF s # <<>> /\ s[1] \in chars THEN StripLeft(Tail(s), chars) ELSE s
StripRight(s, chars) ==
    IF s # <<>> /\ s[Len(s)] \in chars THEN StripRight(SubSeq(s, 1, Len(s) - 1), chars) ELSE s
\* str.strip(chars)
Strip(s, chars) == StripRight(StripLeft(s, chars), chars)

\* the transform of _mk_timestamp with the codes of relative time taken as unknown codes
TimestampOfNoRelative(source, m) ==
    LET epoch_seconds == IntOf(group(source, m, 1))
    IN  IF ~IsValidEpoch(epoch_seconds) THEN TIMESTAMP_INVALID
        ELSE IF group(source, m, 2) = <<>> THEN TimestampNode(epoch_seconds, "")
        ELSE IF group(source, m, 2)[1] \in {"t", "T", "d", "D", "f", "F"}
             THEN TimestampNode(epoch_seconds, group(source, m, 2)[1])
        ELSE TIMESTAMP_INVALID

\* the transform of _mk_timestamp with a code that is not of the alphabet taken as no code
TimestampOfAnyCode(source, m) ==
    LET epoch_seconds == IntOf(group(source, m, 1))
    IN  IF ~IsValidEpoch(epoch_seconds) THEN TIMESTAMP_INVALID
        ELSE IF group(source, m, 2) # <<>> /\ group(source, m, 2)[1] \in {"t", "T", "d", "D", "f", "F"}
             THEN TimestampNode(epoch_seconds, group(source, m, 2)[1])
        ELSE TimestampNode(epoch_seconds, "")

\* the transform of _mk_timestamp
TimestampOf(source, m) ==
    LET epoch_seconds == IntOf(group(source, m, 1))
        raw_format == group(source, m, 2)
    IN  IF ~IsValidEpoch(epoch_seconds) THEN TIMESTAMP_INVALID
        ELSE IF raw_format = <<>> THEN TimestampNode(epoch_seconds, "")
        ELSE IF raw_format[1] \in {"t", "T", "d", "D", "f", "F"}
             THEN TimestampNode(epoch_seconds, raw_format[1])
        ELSE IF raw_format[1] \in {"r", "R"} THEN TimestampNode(epoch_seconds, "")
        ELSE TIMESTAMP_INVALID

(***************************************************************************)
(* The parser's state: the text being parsed, the calls of _parse that are *)
(* running (the innermost last), and the result of each call that has      *)
(* returned.  A call is [depth, start, length, matcher]; its segment is    *)
(* that span of markdown.                                                  *)
(***************************************************************************)
VARIABLES markdown, stack, returned

(***************************************************************************)
(* The renders: the ExportContext they share, what is outside the program  *)
(* (the guild as the client sees it, the downloads, the time zone of the   *)
(* process), and the calls of format, one task each.                       *)
(***************************************************************************)
VARIABLES context, world, tasks

ParseCall(depth, segment, matcher) ==
    [depth |-> depth, start |-> segment.start, length |-> segment.length, matcher |-> matcher]

\* the call _parse(depth, segment, matcher) a transform makes: the nodes the call returned
Nested(depth, segment, matcher) ==
    LET call == ParseCall(depth, segment, matcher)
    IN  [nodes |-> IF call \in DOMAIN returned THEN returned[call].nodes ELSE <<>>,
         log |-> [NoLog EXCEPT !.calls = <<call>>]]

RECURSIVE MatchAllLoop(_, _, _, _, _, _, _), MatchAllStep(_, _, _, _, _, _, _, _)
RECURSIVE AggregateLoop(_, _, _, _, _, _), AggregateStep(_, _, _, _, _, _, _)
RECURSIVE ParseEach(_, _, _, _, _, _, _), ParseEachMatch(_, _, _, _, _, _, _)

\* the Formatting kind of the matchers that parse one group into the children of a node
FormattingKind(name) ==
    CASE name \in {"italic", "italic_bold", "italic_alt", "italic_underline"} -> "italic"
      [] name = "bold" -> "bold"
      [] name = "underline" -> "underline"
      [] name = "strikethrough" -> "strikethrough"
      [] name = "spoiler" -> "spoiler"
      [] name \in {"single_line_quote", "multi_line_quote"} -> "quote"

\* the matcher these transforms parse their group with
ChildMatcher(name) ==
    CASE name = "italic_bold" -> _BOLD_MATCHER
      [] name = "italic_underline" -> _UNDERLINE_MATCHER
      [] OTHER -> _NODE_MATCHER

(***************************************************************************)
(* The loop of the transforms of _mk_repeated_single_line_quote and        *)
(* _mk_list: pat.finditer(s.source, pos, endpos), each match's group 1     *)
(* parsed by _NODE_MATCHER.  items is whether each parse is wrapped in a   *)
(* ListItemNode; the result is [nodes, log].                               *)
(***************************************************************************)
\* acc, and the nodes r of one more match
Accumulate(acc, items, r) ==
    [nodes |-> acc.nodes \o (IF items THEN <<ListItemNode(r.nodes)>> ELSE r.nodes),
     log |-> JoinLog(acc.log, r.log)]

ParseEach(pat, d, s, pos, endpos, items, acc) ==
    ParseEachMatch(pat, d, s, endpos, items, acc, Search(pat, s.source, pos, endpos))

\* the next match lm of the loop, or none
ParseEachMatch(pat, d, s, endpos, items, acc, lm) ==
    IF lm.start < 0 THEN acc
    ELSE ParseEach(pat, d, s, lm.end, endpos, items,
                   Accumulate(acc, items,
                              Nested(d, relocate(s, lm.g[1][1], lm.g[1][2] - lm.g[1][1]),
                                     _NODE_MATCHER)))

\* a transform's result: the node, or None, and the log of the parses it made
Made(node) == [none |-> FALSE, node |-> node, log |-> NoLog]
MadeNone == [none |-> TRUE, node |-> TextNode(<<>>), log |-> NoLog]
\* the nodes a transform makes of the nodes r.nodes of its parses
FormattingOf(kind, r) ==
    [none |-> FALSE, node |-> FormattingNode(kind, r.nodes), log |-> r.log]
HeadingOf(level, r) == [none |-> FALSE, node |-> HeadingNode(level, r.nodes), log |-> r.log]
ListOf(r) == [none |-> FALSE, node |-> ListNode(r.nodes), log |-> r.log]
LinkOf(url, r) == [none |-> FALSE, node |-> LinkNode(url, r.nodes), log |-> r.log]
EmptyParse == [nodes |-> <<>>, log |-> NoLog]

\* the transform _t of the matcher: d the depth, s the matched segment, m the match
Transform(name, d, s, m) ==
    CASE name \in {"bold", "italic", "italic_bold", "italic_alt", "underline",
                   "italic_underline", "strikethrough", "spoiler",
                   "single_line_quote", "multi_line_quote"} ->
           FormattingOf(FormattingKind(name),
                        Nested(d, _seg_from_group(s, m, 1), ChildMatcher(name)))
      [] name = "repeated_single_line_quote" ->
           FormattingOf("quote",
                        ParseEach(Pattern("quote_line"), d, s, m.start, m.end, FALSE, EmptyParse))
      [] name = "heading" ->
           HeadingOf(m.g[1][2] - m.g[1][1], Nested(d, _seg_from_group(s, m, 2), _NODE_MATCHER))
      [] name = "list" ->
           ListOf(ParseEach(ItemPattern(group(s.source, m, 1)), d, s, m.start, m.end, TRUE,
                            EmptyParse))
      [] name = "inline_code_block" -> Made(InlineCodeBlockNode(group(s.source, m, 2)))
      [] name = "multi_line_code_block" ->
           Made(MultiLineCodeBlockNode(group(s.source, m, 1),
                                       Strip(group(s.source, m, 2), {"\r", "\n"})))
      [] name = "user_mention" -> Made(MentionNode(try_parse(group(s.source, m, 1)), "user"))
      [] name = "channel_mention" ->
           Made(MentionNode(try_parse(group(s.source, m, 1)), "channel"))
      [] name = "role_mention" -> Made(MentionNode(try_parse(group(s.source, m, 1)), "role"))
      [] name = "standard_emoji" -> Made(EmojiNode(<<>>, group(s.source, m, 1), FALSE))
      [] name = "coded_standard_emoji" ->
           IF group(s.source, m, 1) \in DOMAIN CODE_TO_EMOJI
           THEN Made(EmojiNode(<<>>, <<CODE_TO_EMOJI[group(s.source, m, 1)]>>, FALSE))
           ELSE MadeNone
      [] name = "custom_emoji" ->
           Made(EmojiNode(try_parse(group(s.source, m, 3)), group(s.source, m, 2),
                          m.g[1][1] >= 0))
      [] name \in {"auto_link", "hidden_link"} -> Made(LinkNode(group(s.source, m, 1), <<>>))
      [] name = "masked_link" ->
           LinkOf(group(s.source, m, 2), Nested(d, _seg_from_group(s, m, 1), _NODE_MATCHER))
      [] name \in {"ignored_emoji_text", "escaped_symbol_text", "escaped_character_text"} ->
           Made(TextNode(group(s.source, m, 1)))
      [] name = "timestamp" -> Made(TimestampOf(s.source, m))

\* the transform of the string matchers
StringTransform(name, s) ==
    CASE name = "everyone_mention" -> MentionNode(<<>>, "everyone")
      [] name = "here_mention" -> MentionNode(<<>>, "here")
      [] name = "shrug_text" -> TextNode(str(s))

\* the _ParsedMatch of the transform's result t, or None when the transform returned None
Transformed(seg_match, t) ==
    IF t.none THEN [hit |-> NoHit, log |-> t.log]
    ELSE [hit |-> _ParsedMatch(seg_match, t.node), log |-> t.log]

\* Matched with the end of the match taken for its length
MatchedToEnd(name, depth, segment, m) ==
    IF m.start < 0 THEN [hit |-> NoHit, log |-> NoLog]
    ELSE IF m.start < segment.start \/ m.end > end(segment)
         THEN [hit |-> NoHit, log |-> NoLog]
    ELSE Transformed(relocate(segment, m.start, m.end),
                     Transform(name, depth, relocate(segment, m.start, m.end), m))

\* the body of _regex_matcher's _m after m = pattern.search(...)
Matched(name, depth, segment, m) ==
    IF m.start < 0 THEN [hit |-> NoHit, log |-> NoLog]
    ELSE IF m.start < segment.start \/ m.end > end(segment)
         THEN [hit |-> NoHit, log |-> NoLog]
    ELSE Transformed(relocate(segment, m.start, m.end - m.start),
                     Transform(name, depth, relocate(segment, m.start, m.end - m.start), m))

\* a matcher's result: the hit, or NoHit, and the log of the parses its transform made
_regex_matcher(name, depth, segment) ==
    Matched(name, depth, segment,
            Search(Pattern(name), segment.source, segment.start, end(segment)))

\* the body of _string_matcher's _m after idx = source.find(...)
Found(name, segment, idx) ==
    IF idx < 0 THEN [hit |-> NoHit, log |-> NoLog]
    ELSE [hit |-> _ParsedMatch(relocate(segment, idx, Len(Needle(name))),
                               StringTransform(name, relocate(segment, idx, Len(Needle(name))))),
          log |-> NoLog]

_string_matcher(name, depth, segment) ==
    Found(name, segment, FindFrom(segment.source, Needle(name), segment.start, end(segment)))

Matcher(name, depth, segment) ==
    IF name \in StringMatchers
    THEN _string_matcher(name, depth, segment)
    ELSE _regex_matcher(name, depth, segment)

\* Earlier with <= for <: of two matches at one offset the later-listed is kept
EarlierOrLast(earliest, hit) ==
    IF earliest = NoHit \/ hit.segment.start <= earliest.segment.start THEN hit ELSE earliest

\* earliest after the match hit: hit, when it is the first or starts before earliest
Earlier(earliest, hit) ==
    IF earliest = NoHit \/ hit.segment.start < earliest.segment.start THEN hit ELSE earliest

\* the loop stops at the first match of any matcher
ExitsAtAnyHit(earliest, segment) == TRUE

\* the early exit: nothing can start before the start of the segment
ExitsAtStart(earliest, segment) == earliest.segment.start = segment.start

\* the loop of _aggregate_matcher, at the i-th matcher
AggregateLoop(matchers, i, depth, segment, earliest, log) ==
    IF i > Len(matchers) THEN [hit |-> earliest, log |-> log]
    ELSE AggregateStep(matchers, i, depth, segment, earliest, log,
                       Matcher(matchers[i], depth, segment))

\* the body of the loop, r being what the i-th matcher returned
AggregateStep(matchers, i, depth, segment, earliest, log, r) ==
    IF r.hit = NoHit
    THEN AggregateLoop(matchers, i + 1, depth, segment, earliest, JoinLog(log, r.log))
    ELSE IF ExitsAtStart(Earlier(earliest, r.hit), segment)
         THEN [hit |-> Earlier(earliest, r.hit), log |-> JoinLog(log, r.log)]
    ELSE AggregateLoop(matchers, i + 1, depth, segment, Earlier(earliest, r.hit),
                       JoinLog(log, r.log))

\* what the call returned, with the call added to the log
AggregateReturn(matchers, depth, segment, r) ==
    [hit |-> r.hit,
     log |-> [r.log EXCEPT !.aggregate =
                @ \cup {[matchers |-> matchers, depth |-> depth, start |-> segment.start,
                         length |-> segment.length, hit |-> r.hit]}]]

_aggregate_matcher(matchers, depth, segment) ==
    AggregateReturn(matchers, depth, segment,
                    AggregateLoop(matchers, 1, depth, segment, NoHit, NoLog))

\* matcher(depth, segment)
Apply(matcher, depth, segment) ==
    IF matcher.aggregate
    THEN _aggregate_matcher(matcher.matchers, depth, segment)
    ELSE Matcher(matcher.matchers[1], depth, segment)

(***************************************************************************)
(* The loop of _match_all.  pieces records, for each node appended to      *)
(* results, the span of the source it stands for and whether it is a hit   *)
(* of the matcher (or the text of a gap).                                  *)
(***************************************************************************)
Piece(start, stop, hit) == [start |-> start, end |-> stop, hit |-> hit]

MatchAllLoop(matcher, depth, segment, current, results, pieces, log) ==
    IF ~(current < end(segment))
    THEN [nodes |-> results, pieces |-> pieces, log |-> log]
    ELSE MatchAllStep(matcher, depth, segment, current, results, pieces, log,
                      Apply(matcher, depth, relocate(segment, current, end(segment) - current)))

\* MatchAllStep without the text of the gap before a match
MatchAllStepNoGap(matcher, depth, segment, current, results, pieces, log, r) ==
    IF r.hit = NoHit
    THEN [nodes |-> results \o <<TextNode(Slice(segment.source, current, end(segment)))>>,
          pieces |-> pieces \o <<Piece(current, end(segment), FALSE)>>,
          log |-> JoinLog(log, r.log)]
    ELSE MatchAllLoop(matcher, depth, segment,
                      r.hit.segment.start + r.hit.segment.length,
                      results \o <<r.hit.value>>,
                      pieces \o <<Piece(r.hit.segment.start,
                                        r.hit.segment.start + r.hit.segment.length, TRUE)>>,
                      JoinLog(log, r.log))

\* MatchAllStep without the text of the tail after the last match
MatchAllStepNoTail(matcher, depth, segment, current, results, pieces, log, r) ==
    IF r.hit = NoHit
    THEN [nodes |-> results, pieces |-> pieces, log |-> JoinLog(log, r.log)]
    ELSE MatchAllLoop(matcher, depth, segment,
                      r.hit.segment.start + r.hit.segment.length,
                      results
                        \o (IF r.hit.segment.start > current
                            THEN <<TextNode(Slice(segment.source, current, r.hit.segment.start))>>
                            ELSE <<>>)
                        \o <<r.hit.value>>,
                      pieces
                        \o (IF r.hit.segment.start > current
                            THEN <<Piece(current, r.hit.segment.start, FALSE)>>
                            ELSE <<>>)
                        \o <<Piece(r.hit.segment.start,
                                   r.hit.segment.start + r.hit.segment.length, TRUE)>>,
                      JoinLog(log, r.log))

\* the body of the loop, r being what the matcher returned
MatchAllStep(matcher, depth, segment, current, results, pieces, log, r) ==
    IF r.hit = NoHit
    THEN [nodes |-> results \o <<TextNode(Slice(segment.source, current, end(segment)))>>,
          pieces |-> pieces \o <<Piece(current, end(segment), FALSE)>>,
          log |-> JoinLog(log, r.log)]
    ELSE LET gap == r.hit.segment.start > current
             text == TextNode(Slice(segment.source, current, r.hit.segment.start))
         IN  MatchAllLoop(matcher, depth, segment,
                          r.hit.segment.start + r.hit.segment.length,
                          results \o (IF gap THEN <<text>> ELSE <<>>) \o <<r.hit.value>>,
                          pieces
                            \o (IF gap THEN <<Piece(current, r.hit.segment.start, FALSE)>>
                                ELSE <<>>)
                            \o <<Piece(r.hit.segment.start,
                                       r.hit.segment.start + r.hit.segment.length, TRUE)>>,
                          JoinLog(log, r.log))

\* what the call returned, with the call added to the log
MatchAllReturn(matcher, depth, segment, r) ==
    [nodes |-> r.nodes,
     log |-> [r.log EXCEPT !.match_all =
                @ \cup {[matcher |-> matcher, depth |-> depth, start |-> segment.start,
                         length |-> segment.length, pieces |-> r.pieces,
                         nodes |-> r.nodes]}]]

_match_all(matcher, depth, segment) ==
    MatchAllReturn(matcher, depth, segment,
                   MatchAllLoop(matcher, depth, segment, segment.start, <<>>, <<>>, NoLog))

\* _parse with > for >= : one level more before the cap
_parse_above_cap(depth, segment, matcher) ==
    IF depth > _MAX_DEPTH
    THEN [nodes |-> <<TextNode(str(segment))>>, log |-> NoLog]
    ELSE _match_all(matcher, depth + 1, segment)

\* _parse that gives up the text at the cap
_parse_cut(depth, segment, matcher) ==
    IF depth >= _MAX_DEPTH
    THEN [nodes |-> <<>>, log |-> NoLog]
    ELSE _match_all(matcher, depth + 1, segment)

_parse(depth, segment, matcher) ==
    IF depth >= _MAX_DEPTH
    THEN [nodes |-> <<TextNode(str(segment))>>, log |-> NoLog]
    ELSE _match_all(matcher, depth + 1, segment)

\* the root calls of parse(markdown) and parse_minimal(markdown)
parse(text) == ParseCall(0, _Segment(text, 0, Len(text)), _NODE_MATCHER)
parse_minimal(text) == ParseCall(0, _Segment(text, 0, Len(text)), _MINIMAL_NODE_MATCHER)

\* get_children(node): the children of a container, None (no children) for any other node
get_children(node) ==
    IF node.type \in {"FormattingNode", "HeadingNode", "ListItemNode", "LinkNode"}
    THEN node.children
    ELSE <<>>

\* a list whose items are not looked into
NoItems(node) == <<>>

\* if isinstance(node, ListNode): list(node.items)
Items(node) == IF node.type = "ListNode" THEN node.items ELSE <<>>

RECURSIVE _extract_nodes_of_type(_, _)
\* the result list after _extract_nodes_of_type(nodes, node_type, result), result being empty
_extract_nodes_of_type(nodes, node_type) ==
    IF nodes = <<>> THEN <<>>
    ELSE (IF nodes[1].type = node_type THEN <<nodes[1]>> ELSE <<>>)
           \o _extract_nodes_of_type(get_children(nodes[1]), node_type)
           \o _extract_nodes_of_type(Items(nodes[1]), node_type)
           \o _extract_nodes_of_type(Tail(nodes), node_type)

\* extract_emojis and extract_links, of the nodes that parse(markdown) returned
extract_emojis(nodes) == _extract_nodes_of_type(nodes, "EmojiNode")
extract_links(nodes) == _extract_nodes_of_type(nodes, "LinkNode")

SegmentOf(call) == _Segment(markdown, call.start, call.length)
\* what the running call on top of the stack computes from the calls that have returned
Running == LET call == stack[Len(stack)] IN _parse(call.depth, SegmentOf(call), call.matcher)
\* the nested calls it makes that have not returned
Pending(r) == SelectSeq(r.log.calls, LAMBDA c : c \notin DOMAIN returned)

(***************************************************************************)
(* The ExportContext (exporting/context.py).  A string the program writes  *)
(* is a sequence of pieces: the characters of the message and of names one *)
(* by one, a literal of the code as one piece.  None, where the value is a *)
(* member, a channel or a role, is the record None.                        *)
(***************************************************************************)
None == [none |-> TRUE]

User(display_name, full_name) == [display_name |-> display_name, full_name |-> full_name]
\* display_name is the nick, <<>> when the member has none
Member(user, display_name) == [user |-> user, display_name |-> display_name]
Channel(name, is_voice) == [name |-> name, is_voice |-> is_voice]
\* color is "#rrggbb", <<>> when the role has none
Role(name, color) == [name |-> name, color |-> color]

ExportRequest(should_download_media, is_utc_normalization_enabled) ==
    [should_download_media |-> should_download_media,
     is_utc_normalization_enabled |-> is_utc_normalization_enabled]

ExportContext(request, members, channels, roles) ==
    [request |-> request, _members |-> members, _channels |-> channels, _roles |-> roles]

\* Snowflake.__bool__, and the truth of None
__bool__(id) == id # <<>> /\ id # <<"0">>

try_get_member(ctx, member_id) ==
    IF member_id \in DOMAIN ctx._members THEN ctx._members[member_id] ELSE None
try_get_channel(ctx, channel_id) ==
    IF channel_id \in DOMAIN ctx._channels THEN ctx._channels[channel_id] ELSE None
try_get_role(ctx, role_id) ==
    IF role_id \in DOMAIN ctx._roles THEN ctx._roles[role_id] ELSE None

\* the last instant whose local time is a datetime, in the zone nine hours east of UTC, and
\* the magnitude of the first, in the zone five hours west: 253402300799 - 32400 and
\* -62135596800 + 18000
LastLocalEast == <<"2", "5", "3", "4", "0", "2", "2", "6", "8", "3", "9", "9">>
FirstLocalWestMagnitude == <<"6", "2", "1", "3", "5", "5", "7", "8", "8", "0", "0">>

\* instant.astimezone() raises OverflowError: the local time is outside datetime.min..max
LocalOverflows(tz, instant) ==
    CASE tz = "+09:00" -> instant[1] # "-" /\ ~MagnitudeLeq(instant, LastLocalEast)
      [] tz = "-05:00" -> instant[1] = "-" /\ ~MagnitudeLeq(Tail(instant), FirstLocalWestMagnitude)
      [] OTHER -> FALSE

\* the datetime returned, or raised
normalize_date(ctx, tz, instant) ==
    IF ctx.request.is_utc_normalization_enabled
    THEN [raised |-> FALSE, instant |-> instant, tzinfo |-> "+00:00"]
    ELSE [raised |-> LocalOverflows(tz, instant), instant |-> instant, tzinfo |-> tz]

discord_formats(fmt) ==
    CASE fmt = "t" -> "%H:%M"
      [] fmt = "T" -> "%H:%M:%S"
      [] fmt = "d" -> "%m/%d/%Y"
      [] fmt = "D" -> "%B %d, %Y"
      [] fmt = "f" -> "%B %d, %Y %H:%M"
      [] fmt = "F" -> "%A, %B %d, %Y %H:%M"
      [] fmt = "g" -> "%m/%d/%Y %H:%M"
      [] OTHER -> fmt

\* dt.strftime(strftime_fmt), left as the format, the instant and its zone
strftime(dt, strftime_fmt) == <<strftime_fmt, " of ">> \o dt.instant \o <<dt.tzinfo>>

\* the text, or raised
Formatted(dt, fmt) ==
    [raised |-> dt.raised, text |-> IF dt.raised THEN <<>> ELSE strftime(dt, discord_formats(fmt))]

format_date(ctx, tz, instant, fmt) == Formatted(normalize_date(ctx, tz, instant), fmt)

(***************************************************************************)
(* Emoji (discord/models/emoji.py, cdn.py).                                *)
(***************************************************************************)
\* the standard-emoji index, character to short code
EMOJI_TO_CODE == [c \in {<<"U+2600">>} |-> <<"s", "u", "n", "n", "y">>]

is_custom_emoji(node) == node.id # <<>>

code(node) ==
    IF node.id # <<>> THEN node.name
    ELSE IF node.name \in DOMAIN EMOJI_TO_CODE THEN EMOJI_TO_CODE[node.name] ELSE node.name

\* the code points of the name, in hex, joined by "-": a code point is left as its character
RECURSIVE Join(_)
Join(cs) == IF Len(cs) <= 1 THEN cs ELSE <<cs[1], "-">> \o Join(Tail(cs))

get_standard_emoji_url(emoji_name) ==
    <<"https://cdn.jsdelivr.net/gh/twitter/twemoji@latest/assets/svg/">>
      \o Join(IF \E k \in 1..Len(emoji_name) : emoji_name[k] = "U+200D"
              THEN emoji_name
              ELSE SelectSeq(emoji_name, LAMBDA c : c # "U+FE0F"))
      \o <<".svg">>

get_custom_emoji_url(emoji_id, is_animated) ==
    <<"https://cdn.discordapp.com/emojis/">> \o emoji_id
      \o <<".", IF is_animated THEN "gif" ELSE "png">>

image_url(node) ==
    IF node.id # <<>> THEN get_custom_emoji_url(node.id, node.is_animated)
    ELSE get_standard_emoji_url(node.name)

(***************************************************************************)
(* What visiting a node does (visitor.py): it writes a text, or writes an  *)
(* opening, visits the children and writes a closing, or awaits a lookup   *)
(* that suspends, or raises.                                               *)
(***************************************************************************)
Write(text) == [kind |-> "write", text |-> text]
Around(opening, children, closing) ==
    [kind |-> "around", opening |-> opening, children |-> children, closing |-> closing]
Await(lookup) == [kind |-> "await", lookup |-> lookup]
Raise(error) == [kind |-> "raise", error |-> error]

\* the lookups that suspend: the client's fetch of a member, the download of an asset
Lookup(kind, key) == [kind |-> kind, key |-> key]
NoLookup == Lookup("none", <<>>)

Unknown == <<"U", "n", "k", "n", "o", "w", "n">>
DeletedChannel == <<"d", "e", "l", "e", "t", "e", "d", "-", "c", "h", "a", "n", "n", "e", "l">>
DeletedRole == <<"d", "e", "l", "e", "t", "e", "d", "-", "r", "o", "l", "e">>
InvalidDate == <<"I", "n", "v", "a", "l", "i", "d", " ", "d", "a", "t", "e">>

\* member.display_name or member.user.display_name
DisplayName(member) ==
    IF member.display_name # <<>> THEN member.display_name ELSE member.user.display_name

\* _populate_member goes to the client: the id is not in the cache
Fetches(ctx, node) ==
    node.kind = "user" /\ node.target_id # <<>> /\ node.target_id \notin DOMAIN ctx._members

\* ctx.try_get_x(node.target_id) if node.target_id else None
Target(node, found) == IF __bool__(node.target_id) THEN found ELSE None

(***************************************************************************)
(* PlainTextMarkdownVisitor (plaintext_visitor.py).                        *)
(***************************************************************************)
PlainText_user(member) ==
    <<"@">> \o (IF member # None THEN DisplayName(member) ELSE Unknown)
PlainText_channel(channel) ==
    <<"#">> \o (IF channel # None THEN channel.name ELSE DeletedChannel)
      \o (IF channel # None /\ channel.is_voice
          THEN <<" ", "[", "v", "o", "i", "c", "e", "]">> ELSE <<>>)
PlainText_role(role) ==
    <<"@">> \o (IF role # None THEN role.name ELSE DeletedRole)

\* visit_mention, the member populated
PlainText_visit_mention(ctx, node) ==
    CASE node.kind = "everyone" -> <<"@", "e", "v", "e", "r", "y", "o", "n", "e">>
      [] node.kind = "here" -> <<"@", "h", "e", "r", "e">>
      [] node.kind = "user" -> PlainText_user(Target(node, try_get_member(ctx, node.target_id)))
      [] node.kind = "channel" ->
           PlainText_channel(Target(node, try_get_channel(ctx, node.target_id)))
      [] node.kind = "role" -> PlainText_role(Target(node, try_get_role(ctx, node.target_id)))

\* visit_text that writes the text without the blanks around it
PlainText_visit_text_stripped(node) == Strip(node.text, WhiteSpace)

PlainText_visit_text(node) == node.text

PlainText_visit_emoji(node) ==
    IF is_custom_emoji(node) THEN <<":">> \o node.name \o <<":">> ELSE node.name

\* the body of visit_timestamp where the instant is not None
PlainText_timestamp(formatted) ==
    IF formatted.raised THEN Raise("OverflowError") ELSE Write(formatted.text)

PlainText_visit_timestamp(ctx, tz, node) ==
    IF node.instant # <<>>
    THEN PlainText_timestamp(format_date(ctx, tz, node.instant,
                                         IF node.format # "" THEN node.format ELSE "g"))
    ELSE Write(InvalidDate)

(***************************************************************************)
(* HtmlMarkdownVisitor (html_visitor.py).                                  *)
(***************************************************************************)
\* html.escape(text, quote=True)
_html_encode(text) ==
    [k \in 1..Len(text) |->
       CASE text[k] = "&" -> "&amp;"
         [] text[k] = "<" -> "&lt;"
         [] text[k] = ">" -> "&gt;"
         [] text[k] = "\"" -> "&quot;"
         [] text[k] = "'" -> "&#x27;"
         [] OTHER -> text[k]]

Html_visit_formatting(node) ==
    CASE node.kind = "bold" -> Around(<<"<strong>">>, node.children, <<"</strong>">>)
      [] node.kind = "italic" -> Around(<<"<em>">>, node.children, <<"</em>">>)
      [] node.kind = "underline" -> Around(<<"<u>">>, node.children, <<"</u>">>)
      [] node.kind = "strikethrough" -> Around(<<"<s>">>, node.children, <<"</s>">>)
      [] node.kind = "spoiler" ->
           Around(<<"<span class=\"chatlog__markdown-spoiler chatlog__markdown-spoiler--hidden\" onclick=\"showSpoiler(event, this)\">">>,
                  node.children, <<"</span>">>)
      [] node.kind = "quote" ->
           Around(<<"<div class=\"chatlog__markdown-quote\"><div class=\"chatlog__markdown-quote-border\"></div><div class=\"chatlog__markdown-quote-content\">">>,
                  node.children, <<"</div></div>">>)
      [] OTHER -> Raise("ValueError")

Html_visit_multi_line_code_block(node) ==
    <<"<code class=\"chatlog__markdown-pre chatlog__markdown-pre--multiline ">>
      \o (IF Strip(node.language, WhiteSpace) # <<>>
          THEN <<"language-">> \o node.language ELSE <<"nohighlight">>)
      \o <<"\">">> \o _html_encode(node.code) \o <<"</code>">>

\* ^https?://(?:discord|discordapp)\.com/channels/.*?/(\d+)/?$
MessageLink ==
    Cat(<<Bol, UrlScheme,
          Alt(<<Cat(LitSeq(<<"d", "i", "s", "c", "o", "r", "d">>)),
                Cat(LitSeq(<<"d", "i", "s", "c", "o", "r", "d", "a", "p", "p">>))>>),
          Cat(LitSeq(<<".", "c", "o", "m", "/", "c", "h", "a", "n", "n", "e", "l", "s", "/">>)),
          Rep(Dot, 0, -1, TRUE), Lit("/"), Grp(1, Plus(Set(Digits))), Opt(Lit("/")), Eol>>)

\* the opening of visit_link, msg_match being the match of the url
Html_link(url, msg_match) ==
    <<"<a href=\"">> \o _html_encode(url)
      \o (IF msg_match.start >= 0
          THEN <<"\" onclick=\"scrollToMessage(event, '">> \o group(url, msg_match, 1)
                 \o <<"')\">">>
          ELSE <<"\">">>)

Html_visit_link(node) ==
    Around(Html_link(node.url, Match(MessageLink, node.url)), node.children, <<"</a>">>)

\* visit_emoji, the asset resolved to image_url
Html_visit_emoji(is_jumbo, node, resolved) ==
    <<"<img loading=\"lazy\" class=\"chatlog__emoji ">>
      \o (IF is_jumbo THEN <<"chatlog__emoji--large">> ELSE <<>>)
      \o <<"\" alt=\"">> \o node.name
      \o <<"\" title=\"">> \o code(node)
      \o <<"\" src=\"">> \o resolved \o <<"\">">>

Html_user(full_name, display_name) ==
    <<"<span class=\"chatlog__markdown-mention\" title=\"">> \o _html_encode(full_name)
      \o <<"\">@">> \o _html_encode(display_name) \o <<"</span>">>

Html_channel(channel) ==
    <<"<span class=\"chatlog__markdown-mention\">",
      IF channel # None /\ channel.is_voice THEN "U+1F50A" ELSE "#">>
      \o _html_encode(IF channel # None THEN channel.name ELSE DeletedChannel)
      \o <<"</span>">>

HexValue(c) ==
    CASE c \in Digits -> DigitValue(c)
      [] c \in {"a", "A"} -> 10 [] c \in {"b", "B"} -> 11 [] c \in {"c", "C"} -> 12
      [] c \in {"d", "D"} -> 13 [] c \in {"e", "E"} -> 14 [] c \in {"f", "F"} -> 15

\* int(hex_color[k:k+2], 16), as it is written
Channel8(hex_color, k) == ToString(16 * HexValue(hex_color[k + 1]) + HexValue(hex_color[k + 2]))

\* the style of a role with a color; hex_color is role.color.lstrip("#")
Html_style(hex_color) ==
    <<"color: rgb(", Channel8(hex_color, 0), ", ", Channel8(hex_color, 2), ", ",
      Channel8(hex_color, 4), "); background-color: rgba(", Channel8(hex_color, 0), ", ",
      Channel8(hex_color, 2), ", ", Channel8(hex_color, 4), ", 0.1);">>

Html_role(role) ==
    <<"<span class=\"chatlog__markdown-mention\" style=\"">>
      \o (IF role # None /\ role.color # <<>>
          THEN Html_style(StripLeft(role.color, {"#"})) ELSE <<>>)
      \o <<"\">@">> \o _html_encode(IF role # None THEN role.name ELSE DeletedRole)
      \o <<"</span>">>

\* visit_mention, the member populated
Html_visit_mention(ctx, node) ==
    CASE node.kind = "everyone" ->
           <<"<span class=\"chatlog__markdown-mention\">@everyone</span>">>
      [] node.kind = "here" -> <<"<span class=\"chatlog__markdown-mention\">@here</span>">>
      [] node.kind = "user" ->
           IF Target(node, try_get_member(ctx, node.target_id)) # None
           THEN Html_user(try_get_member(ctx, node.target_id).user.full_name,
                          DisplayName(try_get_member(ctx, node.target_id)))
           ELSE Html_user(Unknown, Unknown)
      [] node.kind = "channel" -> Html_channel(Target(node, try_get_channel(ctx, node.target_id)))
      [] node.kind = "role" -> Html_role(Target(node, try_get_role(ctx, node.target_id)))

\* the body of visit_timestamp where the instant is not None
Html_timestamp(formatted, formatted_long) ==
    IF formatted.raised \/ formatted_long.raised THEN Raise("OverflowError")
    ELSE Write(<<"<span class=\"chatlog__markdown-timestamp\" title=\"">>
                 \o _html_encode(formatted_long.text) \o <<"\">">>
                 \o _html_encode(formatted.text) \o <<"</span>">>)

Html_visit_timestamp(ctx, tz, node) ==
    IF node.instant # <<>>
    THEN Html_timestamp(format_date(ctx, tz, node.instant,
                                    IF node.format # "" THEN node.format ELSE "g"),
                        format_date(ctx, tz, node.instant, "f"))
    ELSE Write(<<"<span class=\"chatlog__markdown-timestamp\" title=\"">>
                 \o <<"\">">> \o _html_encode(InvalidDate) \o <<"</span>">>)

\* visit(node) of the hypertext visitor, up to its first await
Html_visit(task, ctx, tz, node) ==
    CASE node.type = "TextNode" -> Write(_html_encode(node.text))
      [] node.type = "FormattingNode" -> Html_visit_formatting(node)
      [] node.type = "HeadingNode" ->
           Around(<<"<h", ToString(node.level), ">">>, node.children,
                  <<"</h", ToString(node.level), ">">>)
      [] node.type = "ListNode" -> Around(<<"<ul>">>, node.items, <<"</ul>">>)
      [] node.type = "ListItemNode" -> Around(<<"<li>">>, node.children, <<"</li>">>)
      [] node.type = "InlineCodeBlockNode" ->
           Write(<<"<code class=\"chatlog__markdown-pre chatlog__markdown-pre--inline\">">>
                   \o _html_encode(node.code) \o <<"</code>">>)
      [] node.type = "MultiLineCodeBlockNode" -> Write(Html_visit_multi_line_code_block(node))
      [] node.type = "LinkNode" -> Html_visit_link(node)
      [] node.type = "EmojiNode" ->
           IF ctx.request.should_download_media THEN Await(Lookup("asset", image_url(node)))
           ELSE Write(Html_visit_emoji(task.is_jumbo, node, image_url(node)))
      [] node.type = "MentionNode" ->
           IF Fetches(ctx, node) THEN Await(Lookup("member", node.target_id))
           ELSE Write(Html_visit_mention(ctx, node))
      [] node.type = "TimestampNode" -> Html_visit_timestamp(ctx, tz, node)
      [] OTHER -> Raise("TypeError")

\* visit(node) of the plain-text visitor, up to its first await
PlainText_visit(ctx, tz, node) ==
    CASE node.type = "TextNode" -> Write(PlainText_visit_text(node))
      [] node.type \in {"FormattingNode", "HeadingNode", "ListItemNode", "LinkNode"} ->
           Around(<<>>, node.children, <<>>)
      [] node.type = "ListNode" -> Around(<<>>, node.items, <<>>)
      [] node.type \in {"InlineCodeBlockNode", "MultiLineCodeBlockNode"} -> Write(<<>>)
      [] node.type = "EmojiNode" -> Write(PlainText_visit_emoji(node))
      [] node.type = "MentionNode" ->
           IF Fetches(ctx, node) THEN Await(Lookup("member", node.target_id))
           ELSE Write(PlainText_visit_mention(ctx, node))
      [] node.type = "TimestampNode" -> PlainText_visit_timestamp(ctx, tz, node)
      [] OTHER -> Raise("TypeError")

(***************************************************************************)
(* A call of format is a task: its arguments, where it is (created,        *)
(* parsing, awaiting a lookup, returned or raised), the nodes parsed, what *)
(* it has left to do (the nodes to visit and the closings to write, in     *)
(* order), the buffer, and how often it was suspended.                     *)
(***************************************************************************)
Task(mode, text, is_jumbo_allowed) ==
    [mode |-> mode, markdown |-> text, is_jumbo_allowed |-> is_jumbo_allowed,
     state |-> "created", nodes |-> <<>>, is_jumbo |-> FALSE, todo |-> <<>>,
     buffer |-> <<>>, awaiting |-> NoLookup, awaits |-> 0, error |-> ""]

ToVisit(node) == [op |-> "visit", node |-> node, text |-> <<>>]
ToWrite(text) == [op |-> "write", node |-> TextNode(<<>>), text |-> text]
\* the rest of a visit whose lookup returned resolved
ToFinish(node, resolved) == [op |-> "finish", node |-> node, text |-> resolved]

\* visit_many(nodes), what it has to do
visit_many(nodes) == [k \in 1..Len(nodes) |-> ToVisit(nodes[k])]

\* what the next thing to do does
Effect(task, ctx, tz, item) ==
    CASE item.op = "write" -> Write(item.text)
      [] item.op = "visit" ->
           IF task.mode = "html" THEN Html_visit(task, ctx, tz, item.node)
           ELSE PlainText_visit(ctx, tz, item.node)
      [] item.op = "finish" ->
           IF item.node.type = "EmojiNode"
           THEN Write(Html_visit_emoji(task.is_jumbo, item.node, item.text))
           ELSE IF task.mode = "html" THEN Write(Html_visit_mention(ctx, item.node))
           ELSE Write(PlainText_visit_mention(ctx, item.node))

RECURSIVE Run(_, _, _), Do(_, _, _, _)
\* the task runs on until it awaits a lookup, raises, or returns the buffer
Run(task, ctx, tz) ==
    IF task.todo = <<>> THEN [task EXCEPT !.state = "returned"]
    ELSE Do(task, ctx, tz, Effect(task, ctx, tz, task.todo[1]))

Do(task, ctx, tz, e) ==
    CASE e.kind = "write" ->
           Run([task EXCEPT !.buffer = @ \o e.text, !.todo = Tail(@)], ctx, tz)
      [] e.kind = "around" ->
           Run([task EXCEPT !.buffer = @ \o e.opening,
                            !.todo = visit_many(e.children) \o <<ToWrite(e.closing)>>
                                       \o Tail(@)], ctx, tz)
      [] e.kind = "await" ->
           [task EXCEPT !.state = "awaiting", !.awaiting = e.lookup, !.awaits = @ + 1]
      [] e.kind = "raise" -> [task EXCEPT !.state = "raised", !.error = e.error]

\* OnlyEmoji with any for all: one emoji in the message is enough
AnyEmoji(nodes) == \E k \in 1..Len(nodes) : nodes[k].type = "EmojiNode"

\* isinstance(n, EmojiNode) or (isinstance(n, TextNode) and not n.text.strip()), for all n
OnlyEmoji(nodes) ==
    \A k \in 1..Len(nodes) :
       \/ nodes[k].type = "EmojiNode"
       \/ nodes[k].type = "TextNode" /\ Strip(nodes[k].text, WhiteSpace) = <<>>

\* format, from the nodes parsed to the first await
Formatting(task, nodes) ==
    [task EXCEPT !.state = "running", !.nodes = nodes, !.todo = visit_many(nodes),
                 !.is_jumbo = task.mode = "html" /\ task.is_jumbo_allowed /\ OnlyEmoji(nodes)]

\* the file saved for the url, as the path from the output directory
Saved(url) == <<"assets/">> \o Tail(url)

\* what the lookup returns: the member the client has, or None; the url resolve_asset_url
\* returns, of the file saved or, the download having failed, the url given
Answer(w, lookup) ==
    IF lookup.kind = "member"
    THEN (IF lookup.key \in DOMAIN w.members THEN w.members[lookup.key] ELSE None)
    ELSE (IF w.download = "saved" THEN Saved(lookup.key) ELSE lookup.key)

\* Member.create_fallback(user)
create_fallback(user) == Member(user, <<>>)

\* a call of populate_member(user), user.id being member_id, or of
\* populate_member_by_id(member_id), fallback_user being None: resolved is the member it
\* stored, turn its place among the calls that stored, during the calls that were awaiting
\* the client for the same id when it was made
PopulateCall(member_id, fallback_user) ==
    [mode |-> "populate", member_id |-> member_id, fallback_user |-> fallback_user,
     state |-> "created", awaiting |-> NoLookup, awaits |-> 0,
     resolved |-> None, turn |-> 0, during |-> {}]

populate_member(member_id, user) == PopulateCall(member_id, user)
populate_member_by_id(member_id) == PopulateCall(member_id, None)

\* _populate_member up to its await: it returns when the id is cached, and goes to the
\* client when it is not
_populate_member(ctx, call) ==
    IF call.member_id \in DOMAIN ctx._members THEN [call EXCEPT !.state = "returned"]
    ELSE [call EXCEPT !.state = "awaiting", !.awaiting = Lookup("member", call.member_id),
                      !.awaits = @ + 1]

\* if member is None and fallback_user is not None: member = Member.create_fallback(..)
Fallback(call, member) ==
    IF member = None /\ call.fallback_user # None THEN create_fallback(call.fallback_user)
    ELSE member

\* the member stored only where the cache has no entry for the id
StoredIfAbsent(ctx, lookup, answer) ==
    IF lookup.kind = "member" /\ lookup.key \notin DOMAIN ctx._members
    THEN [ctx EXCEPT !._members = (lookup.key :> answer) @@ @]
    ELSE ctx

\* the member stored unless the client had none
StoredUnlessNone(ctx, lookup, answer) ==
    IF lookup.kind = "member" /\ answer # None
    THEN [ctx EXCEPT !._members = (lookup.key :> answer) @@ @]
    ELSE ctx

\* self._members[member_id] = member
Stored(ctx, lookup, answer) ==
    IF lookup.kind = "member" THEN [ctx EXCEPT !._members = (lookup.key :> answer) @@ @]
    ELSE ctx

\* visit_many with the next sibling taken up before the visit that was suspended is finished
NextSiblingFirst(todo, finish) ==
    IF Len(todo) > 1 THEN <<todo[2], finish>> \o SubSeq(todo, 3, Len(todo)) ELSE <<finish>>

\* await self.visit(node) in visit_many: the visit suspended is finished, then the rest
Awaited(todo, finish) == <<finish>> \o Tail(todo)

\* the task as it is resumed with the answer of its lookup
Woken(task, answer) ==
    [task EXCEPT !.state = "running", !.awaiting = NoLookup,
                 !.todo = Awaited(@, ToFinish(task.todo[1].node,
                                              IF task.awaiting.kind = "asset" THEN answer
                                              ELSE <<>>))]

vars == <<markdown, stack, returned, context, world, tasks>>

(***************************************************************************)
(* The texts the parser is given: every concatenation of at most MaxFrags  *)
(* of the fragments, texts that show one construct each, and quotes nested *)
(* MaxNest deep.                                                           *)
(***************************************************************************)
MaxFrags == 2
MaxNest == 33

\* pieces of markup, of tokens and of text
Fragments ==
    << <<"x", " ">>,
       <<"*", "*">>,
       <<"a", "*", "*">>,
       <<"_", "_">>,
       <<"<", "@", "1", ">">>,
       <<"<", ":", "e", ":", "5", ">">>,
       <<"<", "t", ":", "5", ":", "R", ">">>,
       <<"\n">> >>

\* one text for each construct
Samples ==
    << <<"x", " ", "_", "_", "a", "_", "_">>,
       <<"x", " ", "*", "*", "a", "*", "*", " ", "b", "*">>,
       <<"x", " ", "*", "*", "*", "a", "*", "*", "*">>,
       <<"x", "\n", ">", " ", "a", "\n", ">", " ", "b">>,
       <<"[", "x", "]", "(", "h", "t", "t", "p", ":", "/", "/", "a", ")">>,
       <<"a", " ", "<", "@", "1", ">", " ", "b">>,
       <<"<", "@", "0", ">", " ", "<", "@", "!", "7", ">">>,
       <<"#", " ", "h", "\n", "-", " ", "i", "\n", "-", " ", "j">>,
       <<":", "s", "u", "n", "n", "y", ":", " ", "U+0060", "c", "U+0060">>,
       <<"@", "e", "v", "e", "r", "y", "o", "n", "e", " ", "<", "#", "2", ">", " ", "<", "@", "&", "3", ">">>,
       <<"<", "t", ":", "2", "5", "3", "4", "0", "2", "3", "0", "0", "8", "0", "0", ">">>,
       <<"<", "a", ":", "e", ":", "5", ">", "@", "h", "e", "r", "e">>,
       <<"~", "~", "a", "~", "~", " ", "|", "|", "b", "|", "|">> >>

RECURSIVE Concats(_)
Concats(n) ==
    IF n = 0 THEN {<<>>}
    ELSE LET shorter == Concats(n - 1)
         IN  shorter \cup {t \o Fragments[i] : t \in shorter, i \in 1..Len(Fragments)}

RECURSIVE Deep(_)
\* k quotes, each the whole rest of the text, around x
Deep(k) == IF k = 0 THEN <<"x">> ELSE <<">", ">", ">", "\n">> \o Deep(k - 1)

\* texts without markup, and each in the combined italic-bold form
Words == {<<"a">>, <<"b", "o", "t", "h">>, <<"a", " ", "b">>, <<" ">>, <<"x", "\n", "1">>}
Both(x) == <<"*", "*", "*">> \o x \o <<"*", "*", "*">>

\* texts with consecutive lines that each start with the marker of a single-line quote
Quotes ==
    { <<">", " ", "l", "i", "n", "e", " ", "o", "n", "e", "\n",
        ">", " ", "l", "i", "n", "e", " ", "t", "w", "o", "\n">>,
      <<">", " ", "a", "\n", ">", " ", "b">>,
      <<"x", "\n", ">", " ", "a", "\n", ">", " ", "b", "\n", ">", " ", "c", "\n", "y">>,
      <<">", " ", "*", "*", "a", "\n", ">", " ", "b", "*", "*">>,
      <<">", "\t", "a", "\n", ">", " ", "<", "@", "1", ">", "\n">>,
      <<">", " ", "*", "*", "a", "*", "*", "\n", ">", " ", "\n", ">", " ", "<", ":", "e", ":", "5", ">",
        " ", "b", "\n">> }

\* texts with emoji and links inside a heading, the items of a list, formatting and a link
Nestings ==
    { <<"#", " ", "h", " ", "<", ":", "e", ":", "5", ">", "\n", "-", " ", "i", " ", "h", "t",
        "t", "p", ":", "/", "/", "a", "\n", "-", " ", "*", "*", "[", "<", ":", "e", ":", "5", ">",
        "]", "(", "h", "t", "t", "p", ":", "/", "/", "a", ")", "*", "*", " ", ":", "s", "u", "n",
        "n", "y", ":">>,
      <<"*", "*", "[", "<", ":", "e", ":", "5", ">", " ", "*", "h", "t", "t", "p", ":", "/",
        "/", "b", "*", "]", "(", "h", "t", "t", "p", ":", "/", "/", "a", ")", "*", "*", " ", ":",
        "s", "u", "n", "n", "y", ":", "\n", "#", " ", "<", ":", "e", ":", "5", ">", "\n">> }

Texts ==
    Concats(MaxFrags) \cup {Samples[i] : i \in 1..Len(Samples)} \cup {Deep(2), Deep(MaxNest)}
      \cup {Both(x) : x \in Words} \cup Quotes \cup Nestings

\* a context that holds nothing, and a world that has nothing to give it
NoContext == ExportContext(ExportRequest(FALSE, FALSE), <<>>, <<>>, <<>>)
NoWorld == [tz |-> "+00:00", members |-> <<>>, download |-> "failed"]

Init ==
    /\ markdown \in Texts
    /\ \E root \in {parse(markdown), parse_minimal(markdown)} : stack = <<root>>
    /\ returned = <<>>
    /\ context = NoContext
    /\ world = NoWorld
    /\ tasks = <<>>

\* the first of the calls pending is entered
Enter(pending) ==
    /\ pending # <<>>
    /\ stack' = Append(stack, pending[1])

\* the running call makes its next nested call of _parse
Call ==
    /\ stack # <<>>
    /\ Enter(Pending(Running))
    /\ UNCHANGED <<markdown, returned, context, world, tasks>>

\* the running call has r to return
Leave(r) ==
    /\ Pending(r) = <<>>
    /\ returned' = (stack[Len(stack)] :> r) @@ returned

\* the running call returns, its nested calls having returned
Return ==
    /\ stack # <<>>
    /\ Leave(Running)
    /\ stack' = SubSeq(stack, 1, Len(stack) - 1)
    /\ UNCHANGED <<markdown, context, world, tasks>>

Next == Call \/ Return

Spec == Init /\ [][Next]_vars

(***************************************************************************)
(* The renders.  The messages rendered, the contexts and worlds they are   *)
(* rendered in, and the calls of format that run on one event loop: up to  *)
(* MaxRenders of them, one of any message and the others of Companion.     *)
(***************************************************************************)
MaxRenders == 2

Messages ==
    << Samples[2], Samples[6], Samples[10], Samples[11], Samples[12],
       <<"<", "@", "0", ">", " ", "<", "#", "0", ">", " ", "<", "@", "&", "0", ">">>,
       <<"*", "*", "<", "@", "7", ">", "*", "*", " ", "<", ":", "e", ":", "5", ">">>,
       <<"<", "t", ":", "2", "5", "3", "4", "0", "2", "3", "0", "0", "7", "9", "9", ">">>,
       <<"<", "t", ":", "-", "6", "2", "1", "3", "5", "5", "9", "6", "8", "0", "0", ":", "R",
         ">", " ", "<", "&", ">">>,
       <<"<", ":", "a", "\"", "<", "b", ":", "5", ">", " ",
         "<", "t", ":", "9", "9", "9", "9", "9", "9", "9", "9", "9", "9", "9", "9", "9", "9",
         "9", "9", "9", ":", "f", ">", " ", "<", "t", ":", "5", ":", "x", ">">>,
       <<"<", "t", ":", "5", ":", "r", ">", " ", "<", "t", ":", "5", ":", "R", ">", " ",
         "<", "t", ":", "5", ">">>,
       <<"<", ":", "e", ":", "5", ">", " ", "U+2600">> >>

Zed == Member(User(<<"z", "e", "d">>, <<"z", "e", "d", "#", "0", "0", "0", "1">>), <<>>)
Al == Member(User(<<"a", "l">>, <<"a", "l">>), <<"A", "&", "l">>)
Bo == Member(User(<<"b", "o">>, <<"b", "o">>), <<>>)

\* a context with its world: nothing to resolve; nothing to resolve, east of UTC, the
\* downloads failing; all resolved from the cache, dates in UTC, the downloads saved; a cache
\* with an absent member, west of UTC, the members fetched from the client
Settings ==
    << [context |-> NoContext, world |-> NoWorld],
       [context |-> ExportContext(ExportRequest(TRUE, FALSE), <<>>, <<>>, <<>>),
        world |-> [tz |-> "+09:00", members |-> <<>>, download |-> "failed"]],
       [context |->
          ExportContext(ExportRequest(TRUE, TRUE),
                        (<<"0">> :> Zed) @@ (<<"1">> :> Al),
                        (<<"0">> :> Channel(<<"n", "i", "l">>, FALSE))
                          @@ (<<"2">> :> Channel(<<"v", "c">>, TRUE)),
                        (<<"0">> :> Role(<<"n", "o", "b">>, <<>>))
                          @@ (<<"3">> :> Role(<<"m", "o", "d">>,
                                              <<"#", "f", "f", "0", "0", "8", "0">>))),
        world |-> [tz |-> "-05:00", members |-> (<<"7">> :> Bo), download |-> "saved"]],
       [context |->
          ExportContext(ExportRequest(FALSE, FALSE),
                        (<<"1">> :> None),
                        (<<"2">> :> Channel(<<"c", "h">>, FALSE)),
                        (<<"3">> :> Role(<<"m", "o", "d">>, <<>>))),
        world |-> [tz |-> "-05:00",
                   members |-> (<<"0">> :> Zed) @@ (<<"1">> :> Al) @@ (<<"7">> :> Bo),
                   download |-> "failed"]] >>

Jobs ==
    {Task(mode, Messages[i], TRUE) : mode \in {"html", "plain"}, i \in 1..Len(Messages)}
      \cup {Task("html", Messages[Len(Messages)], FALSE)}

\* another call of format on the same loop, with two members to fetch
Companion == Task("plain", <<"<", "@", "7", ">", " ", "<", "@", "1", ">">>, TRUE)

\* the calls of format on one event loop
Renders == {[i \in 1..n |-> IF i = 1 THEN job ELSE Companion] : job \in Jobs, n \in 1..MaxRenders}

RenderInit ==
    /\ markdown = <<>>
    /\ stack = <<>>
    /\ returned = <<>>
    /\ \E s \in 1..Len(Settings) : context = Settings[s].context /\ world = Settings[s].world
    /\ tasks \in Renders

\* no call of format is in its parse: parse and parse_minimal do not suspend
NotParsing == stack = <<>> /\ \A t \in DOMAIN tasks : tasks[t].state # "parsing"

\* the root call of the parse of a task
Root(task) == IF task.mode = "html" THEN parse(task.markdown) ELSE parse_minimal(task.markdown)

\* format is called: the task is started, and parses its markdown
Format(t) ==
    /\ NotParsing
    /\ tasks[t].state = "created"
    /\ markdown' = tasks[t].markdown
    /\ stack' = <<Root(tasks[t])>>
    /\ returned' = <<>>
    /\ tasks' = [tasks EXCEPT ![t].state = "parsing"]
    /\ UNCHANGED <<context, world>>

\* the parse has returned, and nothing of it is left but the nodes: the task visits them, up
\* to its first await
Render(t) ==
    /\ stack = <<>>
    /\ tasks[t].state = "parsing"
    /\ tasks' = [tasks EXCEPT ![t] = Run(Formatting(tasks[t], returned[Root(tasks[t])].nodes),
                                         context, world.tz)]
    /\ markdown' = <<>>
    /\ returned' = <<>>
    /\ UNCHANGED <<stack, context, world>>

\* the lookup a task awaits returns: the member fetched is stored, and the task runs on to
\* its next await
Resume(t) ==
    /\ NotParsing
    /\ tasks[t].state = "awaiting"
    /\ context' = Stored(context, tasks[t].awaiting, Answer(world, tasks[t].awaiting))
    /\ tasks' = [tasks EXCEPT ![t] = Run(Woken(tasks[t], Answer(world, tasks[t].awaiting)),
                                         context', world.tz)]
    /\ UNCHANGED <<markdown, stack, returned, world>>

Start == \E t \in DOMAIN tasks : Format(t)
Visit == \E t \in DOMAIN tasks : Render(t)
Wake == \E t \in DOMAIN tasks : Resume(t)

RenderNext == Start \/ Call \/ Return \/ Visit \/ Wake

RenderSpec == RenderInit /\ [][RenderNext]_vars

(* The calls of populate_member and populate_member_by_id on one context: the exporter makes *)
(* the first for the author of a message, the visitors the second for a mention.            *)

MaxCalls == 2

Ids == {<<"1">>, <<"7">>}

PopulateCalls ==
    {populate_member_by_id(id) : id \in Ids}
      \cup {populate_member(<<"1">>, Al.user), populate_member(<<"7">>, Bo.user)}

\* the members the client has: none, one, both
Guilds == {<<>>, (<<"7">> :> Bo), (<<"1">> :> Al) @@ (<<"7">> :> Bo)}

PopulateInit ==
    /\ markdown = <<>>
    /\ stack = <<>>
    /\ returned = <<>>
    /\ context \in {NoContext, Settings[4].context}
    /\ \E g \in Guilds : world = [NoWorld EXCEPT !.members = g]
    /\ tasks \in UNION {[1..n -> PopulateCalls] : n \in 1..MaxCalls}

\* the calls that await the client for the id
InFlight(id) ==
    {u \in DOMAIN tasks : tasks[u].state = "awaiting" /\ tasks[u].member_id = id}

\* the calls that have stored a member
Stores == Cardinality({u \in DOMAIN tasks : tasks[u].turn > 0})

\* the call is made, and runs to its await or returns
Begin(t) ==
    /\ tasks[t].state = "created"
    /\ tasks' = [tasks EXCEPT ![t] = [_populate_member(context, @)
                                        EXCEPT !.during = InFlight(tasks[t].member_id)]]
    /\ UNCHANGED <<markdown, stack, returned, context, world>>

\* the call as it returns, the member stored
Returning(call, member, turn) ==
    [call EXCEPT !.state = "returned", !.awaiting = NoLookup, !.resolved = member,
                 !.turn = turn]

\* the client returns: the member, or the fallback for it, is stored, and the call returns
Finish(t) ==
    /\ tasks[t].state = "awaiting"
    /\ context' = Stored(context, tasks[t].awaiting,
                         Fallback(tasks[t], Answer(world, tasks[t].awaiting)))
    /\ tasks' = [tasks EXCEPT ![t] = Returning(@, Fallback(@, Answer(world, @.awaiting)),
                                               Stores + 1)]
    /\ UNCHANGED <<markdown, stack, returned, world>>

\* members join and leave the guild
Change ==
    /\ \E t \in DOMAIN tasks : tasks[t].state # "returned"
    /\ \E g \in Guilds : g # world.members /\ world' = [world EXCEPT !.members = g]
    /\ UNCHANGED <<markdown, stack, returned, context, tasks>>

Populate == \E t \in DOMAIN tasks : Begin(t)
Store == \E t \in DOMAIN tasks : Finish(t)

PopulateNext == Populate \/ Store \/ Change

PopulateSpec == PopulateInit /\ [][PopulateNext]_vars


(***************************************************************************)
(* The download of assets: ExportContext.resolve_asset_url                 *)
(* (exporting/context.py) and ExportAssetDownloader                        *)
(* (exporting/asset_downloader.py).  A url is its host, the name of the    *)
(* file in its path and its query; a directory is the sequence of its      *)
(* components.  The disk (world.files) holds for each path the bytes       *)
(* written and whether the file was written to its end.  A call runs       *)
(* without interruption up to the place where it waits: for the semaphore, *)
(* for the lock of its file, for the response, for the next bytes.         *)
(***************************************************************************)
_ALLOWED_DOMAINS ==
    {"cdn.discordapp.com", "media.discordapp.net", "images-ext-1.discordapp.net",
     "images-ext-2.discordapp.net", "cdnjs.cloudflare.com", "cdn.jsdelivr.net"}

_MAX_RESPONSE_SIZE == 50 * 1024 * 1024

\* response.aiter_bytes(chunk_size=8192)
chunk_size == 8192

Url(host, name, query) == [host |-> host, name |-> name, query |-> query]

_is_url_allowed(url) == url.host \in _ALLOWED_DOMAINS

\* parsed._replace(query="", fragment="")
_normalize_url(url) == [url EXCEPT !.query = <<>>]

\* the file of the url in base_dir: its name, and the hash of the normalized url
_get_file_path(base_dir, url) ==
    [dir |-> base_dir, name |-> url.name, hash |-> _normalize_url(url)]

\* os.path.relpath(file_path, start), None standing for a path that starts with ".."
relpath(file_path, start) ==
    IF Len(start) <= Len(file_path.dir) /\ SubSeq(file_path.dir, 1, Len(start)) = start
    THEN [file_path EXCEPT !.dir = SubSeq(@, Len(start) + 1, Len(@))]
    ELSE None

\* urllib.parse.quote(path, safe="/\\:") on the names of the model: a blank is quoted
quote(path) ==
    [path EXCEPT !.name = [k \in DOMAIN @ |-> IF @[k] = " " THEN "%20" ELSE @[k]]]

DownloadRequest(should_download_media, should_reuse_media, assets_dir_path, output_dir_path,
                is_html) ==
    [should_download_media |-> should_download_media,
     should_reuse_media |-> should_reuse_media,
     assets_dir_path |-> assets_dir_path, output_dir_path |-> output_dir_path,
     is_html |-> is_html]

\* asyncio.Lock and asyncio.Semaphore: a waiter is the future of a call that waits, done
\* once it has been woken; it stays in the queue until the call runs again
Lock == [_locked |-> FALSE, _waiters |-> <<>>]
Semaphore(value) == [_value |-> value, _waiters |-> <<>>]
Waiter(t) == [task |-> t, done |-> FALSE]
Waiting(primitive, t) == \E k \in 1..Len(primitive._waiters) : primitive._waiters[k].task = t
WokenIn(primitive, t) ==
    \E k \in 1..Len(primitive._waiters) :
       primitive._waiters[k].task = t /\ primitive._waiters[k].done
Enqueued(primitive, t) == [primitive EXCEPT !._waiters = Append(@, Waiter(t))]
Dequeued(primitive, t) ==
    [primitive EXCEPT !._waiters = SelectSeq(@, LAMBDA w : w.task # t)]

\* Lock._wake_up_first and Lock.release
_wake_up_first(lock) ==
    IF lock._waiters # <<>> /\ ~lock._waiters[1].done
    THEN [lock EXCEPT !._waiters[1].done = TRUE]
    ELSE lock
LockRelease(lock) == _wake_up_first([lock EXCEPT !._locked = FALSE])

\* Semaphore._wake_up_next and Semaphore.release
_wake_up_next(sem) ==
    IF \E k \in 1..Len(sem._waiters) : ~sem._waiters[k].done
    THEN LET first == CHOOSE k \in 1..Len(sem._waiters) :
                        /\ ~sem._waiters[k].done
                        /\ \A j \in 1..(k - 1) : sem._waiters[j].done
         IN  [sem EXCEPT !._value = @ - 1, !._waiters[first].done = TRUE]
    ELSE sem
SemaphoreRelease(sem) == _wake_up_next([sem EXCEPT !._value = @ + 1])

ExportAssetDownloader(base_dir, should_reuse, max_concurrency) ==
    [_base_dir |-> base_dir, _should_reuse |-> should_reuse, _locks |-> <<>>,
     _semaphore |-> Semaphore(max_concurrency)]

\* the context of an export that resolves assets: the downloader is made at the first use,
\* with the concurrency the world gives it
DownloadContext(request) == [request |-> request, _downloader |-> None]

\* a call of resolve_asset_url(url): found is what the disk held at the path it returned,
\* failed the error that ended its download, requests the transfers it started
ResolveCall(url) ==
    [mode |-> "resolve", url |-> url, state |-> "created", result |-> None, error |-> "",
     failed |-> "", found |-> None, total |-> 0, bursts |-> 0, requests |-> 0,
     invoked |-> FALSE]

\* the context, the world and the calls, as one step of a call changes them
System(ctx, w, calls) == [context |-> ctx, world |-> w, tasks |-> calls]

\* what download ends with
Returns(value) == [raised |-> FALSE, value |-> value, error |-> ""]
Raises(error) == [raised |-> TRUE, value |-> None, error |-> error]

\* the error of the download leaving resolve_asset_url
Uncaught(call, error) == [call EXCEPT !.state = "raised", !.error = error, !.failed = error]

\* except Exception: return url
Caught(call, error) == [call EXCEPT !.state = "returned", !.result = call.url, !.failed = error]

\* lines 144-158 of resolve_asset_url: the url as it is, or the path relative to the output
\* directory where it lies in it, quoted for hypertext
Resolved(request, url, file_path) ==
    IF file_path = url THEN url
    ELSE LET rel_path == relpath(file_path, request.output_dir_path)
             optimal_path == IF rel_path = None THEN file_path ELSE rel_path
         IN  IF request.is_html THEN quote(optimal_path) ELSE optimal_path

FileAt(w, file_path) == IF file_path \in DOMAIN w.files THEN w.files[file_path] ELSE None

\* download has ended with the outcome: resolve_asset_url returns
Left(sys, t, outcome) ==
    LET call == sys.tasks[t]
    IN  [sys EXCEPT !.tasks[t] =
           IF outcome.raised THEN Caught(call, outcome.error)
           ELSE [call EXCEPT !.state = "returned",
                             !.result = Resolved(sys.context.request, call.url, outcome.value),
                             !.found = IF outcome.value = call.url THEN None
                                       ELSE FileAt(sys.world, outcome.value)]]

FileOf(sys, t) == _get_file_path(sys.context._downloader._base_dir, sys.tasks[t].url)

\* self._should_reuse and os.path.exists(file_path)
Reusable(sys, t) ==
    sys.context._downloader._should_reuse /\ FileOf(sys, t) \in DOMAIN sys.world.files

\* the lock and the semaphore released where download returns, and kept where it raises
ReleasedOnReturnOnly(sys, t, outcome) ==
    IF outcome.raised THEN Left(sys, t, outcome)
    ELSE Left([sys EXCEPT !.context._downloader._locks[FileOf(sys, t)] = LockRelease(@),
                          !.context._downloader._semaphore = SemaphoreRelease(@)],
              t, outcome)

\* the two async with blocks are left: the lock is released, then the semaphore
Exited(sys, t, outcome) ==
    Left([sys EXCEPT !.context._downloader._locks[FileOf(sys, t)] = LockRelease(@),
                     !.context._downloader._semaphore = SemaphoreRelease(@)],
         t, outcome)

\* under the lock: the second look at the disk, the directory made, the request sent
Locked(sys, t) ==
    IF Reusable(sys, t) THEN Exited(sys, t, Returns(FileOf(sys, t)))
    ELSE IF sys.world.disk = "failing" THEN Exited(sys, t, Raises("OSError"))
    ELSE [sys EXCEPT !.tasks[t].state = "connecting", !.tasks[t].requests = @ + 1]

\* async with lock
AcquireLock(sys, t) ==
    LET lock == sys.context._downloader._locks[FileOf(sys, t)]
    IN  IF ~lock._locked /\ lock._waiters = <<>>
        THEN Locked([sys EXCEPT !.context._downloader._locks[FileOf(sys, t)]._locked = TRUE], t)
        ELSE [sys EXCEPT !.context._downloader._locks[FileOf(sys, t)] = Enqueued(@, t),
                         !.tasks[t].state = "lock"]

\* async with self._semaphore
AcquireSemaphore(sys, t) ==
    LET sem == sys.context._downloader._semaphore
    IN  IF sem._value > 0 /\ sem._waiters = <<>>
        THEN AcquireLock([sys EXCEPT !.context._downloader._semaphore._value = @ - 1], t)
        ELSE [sys EXCEPT !.context._downloader._semaphore = Enqueued(@, t),
                         !.tasks[t].state = "semaphore"]

\* _get_lock(key): the lock of the key, made at the first call for it
_get_lock(sys, key) ==
    IF key \in DOMAIN sys.context._downloader._locks THEN sys
    ELSE [sys EXCEPT !.context._downloader._locks = (key :> Lock) @@ @]

\* download(url) up to the place where it first waits
download(sys, t) ==
    IF ~_is_url_allowed(sys.tasks[t].url) THEN Left(sys, t, Returns(sys.tasks[t].url))
    ELSE IF Reusable(sys, t) THEN Left(sys, t, Returns(FileOf(sys, t)))
    ELSE AcquireSemaphore(_get_lock(sys, FileOf(sys, t)), t)

\* _get_downloader
_get_downloader(sys) ==
    IF sys.context._downloader # None THEN sys
    ELSE [sys EXCEPT !.context._downloader =
            ExportAssetDownloader(sys.context.request.assets_dir_path,
                                  sys.context.request.should_reuse_media,
                                  sys.world.max_concurrency)]

\* resolve_asset_url(url) up to the place where it first waits
resolve_asset_url(sys, t) ==
    IF ~sys.context.request.should_download_media
    THEN [sys EXCEPT !.tasks[t].state = "returned", !.tasks[t].result = sys.tasks[t].url]
    ELSE download([_get_downloader(sys) EXCEPT !.tasks[t].invoked = TRUE], t)

\* the call runs again, the semaphore being its own
SemaphoreAcquired(sys, t) ==
    LET sem == Dequeued(sys.context._downloader._semaphore, t)
    IN  AcquireLock([sys EXCEPT !.context._downloader._semaphore =
                                  IF sem._value > 0 THEN _wake_up_next(sem) ELSE sem], t)

\* the call runs again, the lock being its own
LockAcquired(sys, t) ==
    Locked([sys EXCEPT !.context._downloader._locks[FileOf(sys, t)] =
                         [Dequeued(@, t) EXCEPT !._locked = TRUE]], t)

\* the response has come: raise_for_status, then open(file_path, "wb")
Responded(sys, t, response) ==
    IF response # "ok" THEN Exited(sys, t, Raises(response))
    ELSE [sys EXCEPT !.world.files = (FileOf(sys, t) :> [size |-> 0, whole |-> FALSE]) @@ @,
                     !.tasks[t].state = "receiving", !.tasks[t].total = 0]

\* what a call that receives is woken with
Event(kind, n) == [kind |-> kind, n |-> n]

\* n chunks have come, the end of the body, or the loss of the connection
Received(sys, t, event) ==
    IF event.kind = "end"
    THEN Exited([sys EXCEPT !.world.files[FileOf(sys, t)].whole = TRUE], t,
                Returns(FileOf(sys, t)))
    ELSE IF event.kind = "lost" THEN Exited(sys, t, Raises("ReadError"))
    ELSE IF sys.tasks[t].total + event.n * chunk_size > _MAX_RESPONSE_SIZE
    THEN Exited([sys EXCEPT !.world.files[FileOf(sys, t)].size =
                              _MAX_RESPONSE_SIZE - (_MAX_RESPONSE_SIZE % chunk_size)],
                t, Raises("ValueError"))
    ELSE [sys EXCEPT !.world.files[FileOf(sys, t)].size = @ + event.n * chunk_size,
                     !.tasks[t].total = @ + event.n * chunk_size,
                     !.tasks[t].bursts = @ + 1]

(***************************************************************************)
(* The calls of resolve_asset_url on one context: up to MaxDownloads calls *)
(* of the urls below, made at any time, on a disk that is empty; the       *)
(* responses and the bodies are the network's choice, a body coming in at  *)
(* most MaxBursts bursts of chunks.                                        *)
(***************************************************************************)
MaxDownloads == 3
MaxBursts == 2

\* the chunks that come at once: as many as the largest body has, so that the first burst
\* fills a body to the cap and the second exceeds it
Bursts == {_MAX_RESPONSE_SIZE \div chunk_size}

\* two urls of one file, a url of another with a blank in its name, a url of a host that is
\* not allowed
Urls ==
    << Url("cdn.discordapp.com", <<"a">>, <<>>), Url("cdn.discordapp.com", <<"a">>, <<"s">>),
       Url("media.discordapp.net", <<"b", " ">>, <<>>), Url("example.com", <<"x">>, <<>>) >>

\* the request of the export, the state of the disk, the max_concurrency of the downloader:
\* no download; files reused, in the output directory, for hypertext, one download at a time
\* and two; files not reused, for plain text; files reused, outside of the output directory,
\* on a disk where no directory can be made
Scenes ==
    << [request |-> DownloadRequest(FALSE, TRUE, <<"out", "assets">>, <<"out">>, TRUE),
        disk |-> "ok", max_concurrency |-> 1],
       [request |-> DownloadRequest(TRUE, TRUE, <<"out", "assets">>, <<"out">>, TRUE),
        disk |-> "ok", max_concurrency |-> 1],
       [request |-> DownloadRequest(TRUE, TRUE, <<"media">>, <<"out">>, TRUE),
        disk |-> "ok", max_concurrency |-> 2],
       [request |-> DownloadRequest(TRUE, FALSE, <<"out", "assets">>, <<"out">>, FALSE),
        disk |-> "ok", max_concurrency |-> 2],
       [request |-> DownloadRequest(TRUE, TRUE, <<"out", "assets">>, <<"out">>, FALSE),
        disk |-> "failing", max_concurrency |-> 1] >>

\* the calls to be made, listed by url: the order in which they are made is free
Calls ==
    UNION {{[k \in 1..n |-> ResolveCall(Urls[f[k]])] :
              f \in {g \in [1..n -> 1..Len(Urls)] : \A k \in 1..(n - 1) : g[k] <= g[k + 1]}} :
           n \in 1..MaxDownloads}

DownloadInit ==
    /\ markdown = <<>>
    /\ stack = <<>>
    /\ returned = <<>>
    /\ \E i \in 1..Len(Scenes) :
          /\ context = DownloadContext(Scenes[i].request)
          /\ world = [files |-> <<>>, disk |-> Scenes[i].disk,
                      max_concurrency |-> Scenes[i].max_concurrency]
    /\ tasks \in Calls

\* the step of a call has made sys of the system
Becomes(sys) ==
    /\ context' = sys.context
    /\ world' = sys.world
    /\ tasks' = sys.tasks
    /\ UNCHANGED <<markdown, stack, returned>>

Now == System(context, world, tasks)

\* the call can take a step: it has not been made; it has been woken; the network has
\* something for it
CanResolve(t) == tasks[t].state = "created"
HasSemaphore(t) ==
    tasks[t].state = "semaphore" /\ WokenIn(context._downloader._semaphore, t)
HasLock(t) ==
    tasks[t].state = "lock" /\ WokenIn(context._downloader._locks[FileOf(Now, t)], t)
CanRespond(t) == tasks[t].state = "connecting"
CanReceive(t) == tasks[t].state = "receiving"

\* resolve_asset_url is called
Resolve == \E t \in DOMAIN tasks : CanResolve(t) /\ Becomes(resolve_asset_url(Now, t))

\* a call that was woken runs again
RunAgain ==
    \E t \in DOMAIN tasks :
       \/ HasSemaphore(t) /\ Becomes(SemaphoreAcquired(Now, t))
       \/ HasLock(t) /\ Becomes(LockAcquired(Now, t))

\* the response to the request of a call comes, or the request fails
Respond ==
    \E t \in DOMAIN tasks :
       /\ CanRespond(t)
       /\ \E response \in {"ok", "HTTPStatusError", "ConnectError"} :
             Becomes(Responded(Now, t, response))

\* bytes of the body come, or its end, or the connection is lost
Receive ==
    \E t \in DOMAIN tasks :
       /\ CanReceive(t)
       /\ \E event \in {Event("end", 0), Event("lost", 0)}
                          \cup {Event("chunks", n) : n \in IF tasks[t].bursts < MaxBursts
                                                          THEN Bursts ELSE {}} :
             Becomes(Received(Now, t, event))

DownloadNext == Resolve \/ RunAgain \/ Respond \/ Receive

DownloadSpec == DownloadInit /\ [][DownloadNext]_vars


\* ---------------------------------------------------------------------------
\* The export of a channel: ChannelExporter.export drives a MessageExporter, which
\* writes the messages to partition files through one writer at a time.
\* A path is kept as Path sees it: parent, stem and suffix.  What is done to the
\* files is kept, in order, in world.log.
\* ---------------------------------------------------------------------------

Path(parent, stem, suffix) == [parent |-> parent, stem |-> stem, suffix |-> suffix]

_get_partition_file_path(base_path, partition_index) ==
    IF partition_index <= 0
    THEN base_path
    ELSE Path(base_path.parent,
              base_path.stem \o " [part " \o ToString(partition_index + 1) \o "]",
              base_path.suffix)

_NullPartitionLimit == [kind |-> "null", limit |-> 0]
_FileSizePartitionLimit(limit) == [kind |-> "size", limit |-> limit]
_MessageCountPartitionLimit(limit) == [kind |-> "count", limit |-> limit]

_NullPartitionLimit_is_reached(limit, messages_written, bytes_written) == FALSE
_FileSizePartitionLimit_is_reached(limit, messages_written, bytes_written) ==
    bytes_written >= limit
Exceeded(limit, messages_written, bytes_written) == messages_written > limit
_MessageCountPartitionLimit_is_reached(limit, messages_written, bytes_written) ==
    messages_written >= limit

is_reached(partition_limit, messages_written, bytes_written) ==
    CASE partition_limit.kind = "null" ->
           _NullPartitionLimit_is_reached(partition_limit.limit, messages_written,
                                          bytes_written)
      [] partition_limit.kind = "size" ->
           _FileSizePartitionLimit_is_reached(partition_limit.limit, messages_written,
                                              bytes_written)
      [] partition_limit.kind = "count" ->
           _MessageCountPartitionLimit_is_reached(partition_limit.limit,
                                                  messages_written, bytes_written)

ExportedChannel(kind, id, last_message_id) ==
    [kind |-> kind, id |-> id, last_message_id |-> last_message_id]
\* a Snowflake that may be None is <<>> when it is None and <<value>> when it is not
is_empty(channel) == channel.last_message_id = <<>>
may_have_messages_after(channel, message_id) ==
    ~is_empty(channel) /\ message_id[1] < channel.last_message_id[1]
may_have_messages_before(channel, message_id) ==
    ~is_empty(channel) /\ message_id[1] > channel.id

\* the request of an export: where it writes and how it partitions; preamble is the
\* number of bytes the preamble of its format takes
PartitionRequest(channel, after, before, partition_limit, output_file_path, preamble) ==
    [channel |-> channel, after |-> after, before |-> before,
     partition_limit |-> partition_limit, output_file_path |-> output_file_path,
     preamble |-> preamble]

\* None and Snowflake(0) are false
Given(boundary) == boundary # <<>> /\ boundary # <<0>>

MessageWriter(file_path) ==
    [file_path |-> file_path, messages_written |-> 0, bytes_written |-> 0]

MessageExporter(request) ==
    [request |-> request, _partition_index |-> 0, _writer |-> None,
     messages_exported |-> 0]

\* one thing done to a file: it is opened, a piece is written to it, it is closed
Io(op, file_path, piece, message) ==
    [op |-> op, file_path |-> file_path, piece |-> piece, message |-> message]

Exporting(exporter, log) == [exporter |-> exporter, log |-> log]

_create_writer(sys, file_path) ==
    Exporting([sys.exporter EXCEPT !._writer = MessageWriter(file_path)],
              Append(sys.log, Io("open", file_path, "", 0)))

write_preamble(sys) ==
    Exporting([sys.exporter EXCEPT
                  !._writer.bytes_written = @ + sys.exporter.request.preamble],
              Append(sys.log, Io("write", sys.exporter._writer.file_path, "preamble", 0)))

write_postamble(sys) ==
    Exporting(sys.exporter,
              Append(sys.log, Io("write", sys.exporter._writer.file_path, "postamble", 0)))

writer_close(sys) ==
    Exporting(sys.exporter,
              Append(sys.log, Io("close", sys.exporter._writer.file_path, "", 0)))

\* the writer counts the message, then writes it; a write that fails has written a
\* part of it
write_message(sys, message, written) ==
    Exporting([sys.exporter EXCEPT
                  !._writer.messages_written = @ + 1,
                  !._writer.bytes_written = @ + (IF written THEN message.size ELSE 0)],
              Append(sys.log, Io("write", sys.exporter._writer.file_path,
                                 IF written THEN "message" ELSE "part of a message",
                                 message.id)))

Unfinished(sys) ==
    IF sys.exporter._writer # None
    THEN [writer_close(sys) EXCEPT !.exporter._writer = None]
    ELSE sys

_uninitialize_writer(sys) ==
    IF sys.exporter._writer # None
    THEN [writer_close(write_postamble(sys)) EXCEPT !.exporter._writer = None]
    ELSE sys

Rotated(sys) ==
    IF /\ sys.exporter._writer # None
       /\ is_reached(sys.exporter.request.partition_limit,
                     sys.exporter._writer.messages_written,
                     sys.exporter._writer.bytes_written)
    THEN [_uninitialize_writer(sys) EXCEPT !.exporter._partition_index = @ + 1]
    ELSE sys

Opened(sys) ==
    IF sys.exporter._writer # None
    THEN sys
    ELSE write_preamble(
            _create_writer(sys, _get_partition_file_path(
                                    sys.exporter.request.output_file_path,
                                    sys.exporter._partition_index)))

_initialize_writer(sys) == Opened(Rotated(sys))

\* written is false when write_message raises: the message is then not counted as
\* exported
export_message(sys, message, written) ==
    IF written
    THEN [write_message(_initialize_writer(sys), message, TRUE)
            EXCEPT !.exporter.messages_exported = @ + 1]
    ELSE write_message(_initialize_writer(sys), message, FALSE)

NotForced(sys) == _uninitialize_writer(sys)

close(sys) ==
    IF sys.exporter.messages_exported <= 0
    THEN _uninitialize_writer(_initialize_writer(sys))
    ELSE _uninitialize_writer(sys)

\* ChannelExporter.export: where it is, how many messages the client has yielded to
\* it, and what it has raised ("" when nothing)
Export(state, yielded, raised) == [state |-> state, yielded |-> yielded, raised |-> raised]

\* the beginning of export, up to the first message: a forum is refused before there
\* is an exporter; an empty channel, or one with nothing in the period, closes the
\* exporter and raises
export(sys) ==
    LET request == sys.exporter.request
    IN  IF request.channel.kind = "GUILD_FORUM"
        THEN [sys |-> sys, call |-> Export("ended", 0, "DiscordChatExporterError")]
        ELSE IF \/ is_empty(request.channel)
                \/ Given(request.before)
                     /\ ~may_have_messages_before(request.channel, request.before)
                \/ Given(request.after)
                     /\ ~may_have_messages_after(request.channel, request.after)
             THEN [sys |-> close(sys), call |-> Export("ended", 0, "ChannelEmptyError")]
             ELSE [sys |-> sys, call |-> Export("iterating", 0, "")]

\* the body of the loop for one message: populate_member raises, or the filter does
\* not let the message through, or it is exported, or its writing raises
exported(sys, call, message, outcome) ==
    CASE outcome = "no match" ->
           [sys |-> sys, call |-> [call EXCEPT !.yielded = @ + 1]]
      [] outcome = "exported" ->
           [sys |-> export_message(sys, message, TRUE),
            call |-> [call EXCEPT !.yielded = @ + 1]]
      [] outcome = "populate_member raised" ->
           [sys |-> close(sys),
            call |-> Export("ended", call.yielded + 1, "DiscordChatExporterError")]
      [] outcome = "write_message raised" ->
           [sys |-> close(export_message(sys, message, FALSE)),
            call |-> Export("ended", call.yielded + 1, "DiscordChatExporterError")]

\* the client has no more messages
finished(sys, call) == [sys |-> close(sys), call |-> [call EXCEPT !.state = "ended"]]

MaxMessages == 4
Sizes == {1, 2}
Limits ==
    {_NullPartitionLimit, _FileSizePartitionLimit(3)}
        \cup {_MessageCountPartitionLimit(n) : n \in 1..3}
Channels ==
    {ExportedChannel("GUILD_FORUM", 1, <<5>>), ExportedChannel("GUILD_TEXT", 1, <<>>),
     ExportedChannel("GUILD_TEXT", 1, <<5>>)}
Boundaries ==
    {<<<<>>, <<>>>>, <<<<>>, <<1>>>>, <<<<5>>, <<>>>>, <<<<0>>, <<9>>>>, <<<<2>>, <<9>>>>}
PartitionRequests ==
    {PartitionRequest(channel, boundary[1], boundary[2], limit,
                      Path("out", "chan", ".txt"), preamble) :
        channel \in Channels, boundary \in Boundaries, limit \in Limits,
        preamble \in {0, 2}}

ExportInit ==
    /\ markdown = <<>>
    /\ stack = <<>>
    /\ returned = <<>>
    /\ \E request \in PartitionRequests : context = MessageExporter(request)
    /\ world = [log |-> <<>>]
    /\ tasks = Export("created", 0, "")

Goes(step) ==
    /\ context' = step.sys.exporter
    /\ world' = [log |-> step.sys.log]
    /\ tasks' = step.call
    /\ UNCHANGED <<markdown, stack, returned>>

Here == Exporting(context, world.log)

\* export is called
CallExport == tasks.state = "created" /\ Goes(export(Here))

\* the client yields the next message
Yield ==
    /\ tasks.state = "iterating"
    /\ tasks.yielded < MaxMessages
    /\ \E size \in Sizes,
          outcome \in {"no match", "exported", "populate_member raised",
                       "write_message raised"} :
          /\ (outcome # "exported" => size = 1)
          /\ Goes(exported(Here, tasks, [id |-> tasks.yielded + 1, size |-> size],
                           outcome))

\* the client has yielded its last message
Exhaust == tasks.state = "iterating" /\ Goes(finished(Here, tasks))

ExportNext == CallExport \/ Yield \/ Exhaust

ExportSpec == ExportInit /\ [][ExportNext]_vars


\* ---------------------------------------------------------------------------
\* One call of DiscordClient._raw_request under response_retry.  tenacity runs the
\* request, keeps its outcome (a response or an exception) in the retry state, and
\* asks retry, then stop, then wait.
\* ---------------------------------------------------------------------------

_RETRYABLE_STATUS_CODES == {429, 408}

_is_retryable_status(status_code) ==
    status_code \in _RETRYABLE_STATUS_CODES \/ status_code >= 500

\* a header that may be absent, and whose value may not be a number
Header(given, is_number, number) ==
    [given |-> given, is_number |-> is_number, number |-> number]
NoHeader == Header(FALSE, FALSE, 0)

HttpResponse(status_code, retry_after) ==
    [status_code |-> status_code, retry_after |-> retry_after]
NoResponse == HttpResponse(0, NoHeader)

\* an exception of class type; the status of the response of an HTTPStatusError
HttpException(type, status_code) == [type |-> type, status_code |-> status_code]
NoException == HttpException("", 0)

\* the classes of httpx a class of exception derives from
Bases(type) ==
    CASE type \in {"ConnectTimeout", "ReadTimeout"} -> {type, "TimeoutException"}
      [] type \in {"ConnectError", "ReadError"} -> {type, "NetworkError"}
      [] OTHER -> {type}

_is_retryable_response(response) == _is_retryable_status(response.status_code)

_is_retryable_exception(exc) ==
    IF Bases(exc.type) \cap {"TimeoutException", "NetworkError"} # {}
    THEN TRUE
    ELSE IF "HTTPStatusError" \in Bases(exc.type)
         THEN _is_retryable_status(exc.status_code)
         ELSE FALSE

\* the outcome of an attempt
Future(failed, result, exception) ==
    [failed |-> failed, result |-> result, exception |-> exception]
NoOutcome == Future(FALSE, NoResponse, NoException)

\* the retry state of a call: the number of the attempt, its outcome, and where the
\* call is: in the request, asleep before the next attempt, returned or raised
RetryCallState(attempt_number, outcome, state, delay) ==
    [attempt_number |-> attempt_number, outcome |-> outcome, state |-> state,
     delay |-> delay]

\* retry_if_result(_is_retryable_response) | retry_if_exception(_is_retryable_exception)
retry(retry_state) ==
    \/ ~retry_state.outcome.failed /\ _is_retryable_response(retry_state.outcome.result)
    \/ retry_state.outcome.failed /\ _is_retryable_exception(retry_state.outcome.exception)

\* stop_after_attempt(8)
max_attempt_number == 8
\* the call stops one attempt later
StopsLater(retry_state) == retry_state.attempt_number > max_attempt_number
stop_after_attempt(retry_state) == retry_state.attempt_number >= max_attempt_number

_compute_retry_wait(retry_state) ==
    IF /\ ~retry_state.outcome.failed
       /\ retry_state.outcome.result.retry_after.given
       /\ retry_state.outcome.result.retry_after.is_number
    THEN retry_state.outcome.result.retry_after.number + 1
    ELSE 2 ^ retry_state.attempt_number + 1

\* what tenacity does with the outcome of an attempt: the result is returned or the
\* exception raised when retry says no; when stop says yes the exception of the last
\* attempt is raised again (reraise), or RetryError when the last attempt gave a
\* response; else the call sleeps
response_retry(retry_state) ==
    IF ~retry(retry_state)
    THEN [retry_state EXCEPT
            !.state = IF retry_state.outcome.failed THEN "raised" ELSE "returned"]
    ELSE IF stop_after_attempt(retry_state)
         THEN [retry_state EXCEPT
                 !.state = "raised",
                 !.outcome.exception =
                    IF retry_state.outcome.failed THEN @
                    ELSE HttpException("RetryError", 0)]
    ELSE [retry_state EXCEPT !.state = "asleep", !.delay = _compute_retry_wait(retry_state)]

\* client.get has given outcome
_raw_request(retry_state, outcome) ==
    response_retry([retry_state EXCEPT !.outcome = outcome])

Statuses == {200, 201, 401, 403, 404, 408, 429, 499, 500, 503}
Headers == {NoHeader, Header(TRUE, TRUE, 2), Header(TRUE, FALSE, 0)}
Outcomes ==
    {Future(FALSE, HttpResponse(status_code, retry_after), NoException) :
        status_code \in Statuses \ {429}, retry_after \in {NoHeader}}
      \cup {Future(FALSE, HttpResponse(429, retry_after), NoException) :
               retry_after \in Headers}
      \cup {Future(TRUE, NoResponse, HttpException(type, 0)) :
               type \in {"ConnectTimeout", "ReadTimeout", "ConnectError", "ReadError",
                         "InvalidURL", "RuntimeError"}}

RetryInit ==
    /\ markdown = <<>>
    /\ stack = <<>>
    /\ returned = <<>>
    /\ context = NoContext
    /\ world = [requests |-> 0]
    /\ tasks = RetryCallState(1, NoOutcome, "requesting", 0)

\* the request of the attempt is sent and its outcome comes
Attempt ==
    /\ tasks.state = "requesting"
    /\ \E outcome \in Outcomes : tasks' = _raw_request(tasks, outcome)
    /\ world' = [world EXCEPT !.requests = @ + 1]
    /\ UNCHANGED <<markdown, stack, returned, context>>

\* the sleep before the next attempt is over
Retry ==
    /\ tasks.state = "asleep"
    /\ tasks' = [tasks EXCEPT !.attempt_number = @ + 1, !.state = "requesting"]
    /\ UNCHANGED <<markdown, stack, returned, context, world>>

RetryNext == Attempt \/ Retry

RetrySpec == RetryInit /\ [][RetryNext]_vars


\* ---------------------------------------------------------------------------
\* DiscordClient.get_messages, and the channel it reads while messages arrive.  A
\* datetime is the milliseconds since the Discord epoch (to_date adds the
\* epoch, which every comparison has on both sides); the timestamp the API gives for
\* a message is the time of its id.
\* ---------------------------------------------------------------------------

_PAGE_SIZE == 100

to_date(snowflake) == snowflake \div (2 ^ 22)
ApiMessage(id) == [id |-> id, timestamp |-> to_date(id)]

Greatest(ids) == CHOOSE id \in ids : \A other \in ids : other <= id
Least(ids) == CHOOSE id \in ids : \A other \in ids : id <= other

\* the count newest of ids, newest first
RECURSIVE NewestFirst(_, _)
NewestFirst(ids, count) ==
    IF count = 0 \/ ids = {} THEN <<>>
    ELSE <<Greatest(ids)>> \o NewestFirst(ids \ {Greatest(ids)}, count - 1)

\* the count oldest of ids
RECURSIVE Oldest(_, _)
Oldest(ids, count) ==
    IF count = 0 \/ ids = {} THEN {}
    ELSE {Least(ids)} \cup Oldest(ids \ {Least(ids)}, count - 1)

AsMessages(ids) == [k \in 1..Len(ids) |-> ApiMessage(ids[k])]

\* GET channels/{channel_id}/messages?limit=1[&before=...]: the newest message (before)
LastMessagePage(channel, before) ==
    AsMessages(NewestFirst({id \in channel : before = <<>> \/ id < before[1]}, 1))

\* GET channels/{channel_id}/messages?limit=...&after=...: count of the messages that
\* follow after, those next to it, newest first
MessagesPage(channel, after, count) ==
    AsMessages(NewestFirst(Oldest({id \in channel : id > after}, count), count))

reversed(data) == [k \in 1..Len(data) |-> data[Len(data) + 1 - k]]

\* the generator: where it is, its arguments and its local variables; raised is the
\* error it ended with ("" when none)
Iteration(state, after, before, last_message, current_after, messages, raised) ==
    [state |-> state, after |-> after, before |-> before, last_message |-> last_message,
     current_after |-> current_after, messages |-> messages, raised |-> raised]

\* the body of the for loop up to its yield: the generator ends at a message past the
\* snapshot, yields the next message, or has no message left and asks for a page
NotCompared(sys) ==
    IF sys.call.messages = <<>>
    THEN [sys EXCEPT !.call.state = "paging"]
    ELSE [sys EXCEPT !.call.state = "yielded",
                     !.world.yielded = Append(@, sys.call.messages[1])]

for_message(sys) ==
    IF sys.call.messages = <<>>
    THEN [sys EXCEPT !.call.state = "paging"]
    ELSE IF sys.call.messages[1].timestamp > sys.call.last_message.timestamp
         THEN [sys EXCEPT !.call.state = "ended"]
         ELSE [sys EXCEPT !.call.state = "yielded",
                          !.world.yielded = Append(@, sys.call.messages[1])]

\* get_messages from its start, data being what _get_json gave _try_get_last_message
get_messages(sys, data) ==
    IF data = <<>>
    THEN [sys EXCEPT !.call.state = "ended"]
    ELSE IF /\ sys.call.after # <<>>
            /\ data[Len(data)].timestamp < to_date(sys.call.after[1])
         THEN [sys EXCEPT !.call.state = "ended", !.call.last_message = data[Len(data)]]
         ELSE [sys EXCEPT !.call.state = "paging",
                          !.call.last_message = data[Len(data)],
                          !.call.current_after =
                             IF Given(sys.call.after) THEN sys.call.after[1] ELSE 0]

\* the generator has data, the page it asked for
paged(sys, data) ==
    IF reversed(data) = <<>>
    THEN [sys EXCEPT !.call.state = "ended"]
    ELSE for_message([sys EXCEPT !.call.messages = reversed(data)])

\* the consumer asks for the next message: the generator goes on after its yield
resumed(sys) ==
    for_message([sys EXCEPT !.call.current_after = sys.call.messages[1].id,
                            !.call.messages = Tail(@)])

\* _get_json raises
failed(sys) == [sys EXCEPT !.call.state = "ended", !.call.raised = "DiscordChatExporterError"]

MaxArrivals == 2
Histories == {{}, {2 ^ 22}, {2 ^ 22, 2 ^ 22 + 1, 2 * 2 ^ 22}}
Afters == {<<>>, <<0>>, <<2 ^ 22>>, <<4 * 2 ^ 22>>}
Befores == {<<>>, <<2 ^ 22>>, <<2 * 2 ^ 22>>}

MessagesInit ==
    /\ markdown = <<>>
    /\ stack = <<>>
    /\ returned = <<>>
    /\ context = NoContext
    /\ \E channel \in Histories :
          world = [channel |-> channel,
                   newest |-> IF channel = {} THEN 2 ^ 22 ELSE Greatest(channel),
                   arrivals |-> 0, yielded |-> <<>>, requested |-> <<>>]
    /\ \E after \in Afters, before \in Befores :
          tasks = Iteration("created", after, before, ApiMessage(0), 0, <<>>, "")

Reads(sys) ==
    /\ world' = sys.world
    /\ tasks' = sys.call
    /\ UNCHANGED <<markdown, stack, returned, context>>

Present == [world |-> world, call |-> tasks]

\* get_messages is iterated: it asks for the last message of the channel
Snapshot ==
    /\ tasks.state = "created"
    /\ \/ Reads(get_messages(Present, LastMessagePage(world.channel, tasks.before)))
       \/ Reads(failed(Present))

\* the generator asks for the page after its cursor; the API gives it at least one
\* message when there is one, and at most _PAGE_SIZE
Page ==
    /\ tasks.state = "paging"
    /\ \/ \E count \in 1.._PAGE_SIZE :
             /\ count <= Cardinality(world.channel) \/ count = 1
             /\ Reads(paged([Present EXCEPT
                                !.world.requested = Append(@, tasks.current_after)],
                            MessagesPage(world.channel, tasks.current_after, count)))
       \/ Reads(failed(Present))

\* the consumer asks for the next message
NextMessage == tasks.state = "yielded" /\ Reads(resumed(Present))

\* a message is sent to the channel: its id is greater than every id before it
Arrive ==
    /\ tasks.state # "ended"
    /\ world.arrivals < MaxArrivals
    /\ \E id \in {world.newest + 1, (to_date(world.newest) + 1) * 2 ^ 22} :
          world' = [world EXCEPT !.channel = @ \cup {id}, !.newest = id,
                                 !.arrivals = @ + 1]
    /\ UNCHANGED <<markdown, stack, returned, context, tasks>>

Iterate == Snapshot \/ Page \/ NextMessage

MessagesNext == Iterate \/ Arrive

MessagesSpec == MessagesInit /\ [][MessagesNext]_vars

\* the consumer keeps asking and the API keeps answering
MessagesFairSpec == MessagesSpec /\ WF_vars(Iterate)


(***************************************************************************)
(* Properties of the parser.                                               *)
(***************************************************************************)
\* the parse has returned
Done == stack = <<>>
AggregateEvents == UNION {returned[c].log.aggregate : c \in DOMAIN returned}
MatchAllEvents == UNION {returned[c].log.match_all : c \in DOMAIN returned}
Chars(text) == {text[k] : k \in 1..Len(text)}

\* what each matcher of the aggregate call e returns on the segment of the call
Hits(e) ==
    [i \in 1..Len(e.matchers) |->
       Matcher(e.matchers[i], e.depth, _Segment(markdown, e.start, e.length)).hit]

\* e returned the match that starts first and, among those that start there, the first listed
EarliestFirstListed(e, hits) ==
    IF \A i \in DOMAIN hits : hits[i] = NoHit THEN e.hit = NoHit
    ELSE \E i \in DOMAIN hits :
           /\ hits[i] # NoHit
           /\ e.hit = hits[i]
           /\ \A j \in DOMAIN hits :
                hits[j] # NoHit =>
                  \/ hits[i].segment.start < hits[j].segment.start
                  \/ hits[i].segment.start = hits[j].segment.start /\ i <= j

\* C1: a call of the aggregate matcher returns, of the matches its matchers find in the
\* segment, the one with the smallest start offset, and of several at that offset the one of
\* the matcher listed first, whatever their lengths; it returns None when no matcher matches.
C1_AggregateEarliestFirstListed ==
    Done => \A e \in AggregateEvents : EarliestFirstListed(e, Hits(e))

\* two matchers match at one offset, the later-listed the longer span, and the call returned
\* the match of the first-listed
TieBrokenByOrder(e, hits) ==
    \E i, j \in DOMAIN hits :
       /\ i < j
       /\ hits[i] # NoHit /\ hits[j] # NoHit
       /\ hits[i].segment.start = hits[j].segment.start
       /\ hits[j].segment.length > hits[i].segment.length
       /\ hits[i].value # hits[j].value
       /\ e.hit = hits[i]

C1_Witness == Done /\ \E e \in AggregateEvents : TieBrokenByOrder(e, Hits(e))

\* what the matcher of the _match_all call e returns on the rest of the segment from cursor
HitAt(e, cursor) ==
    Apply(e.matcher, e.depth, _Segment(markdown, cursor, e.start + e.length - cursor)).hit

\* where the cursor was when the k-th piece, a match, was found
CursorAt(pieces, k) ==
    IF k > 1 /\ ~pieces[k - 1].hit THEN pieces[k - 1].start ELSE pieces[k].start

\* the k-th piece, a gap, ends where the next match starts, or is the tail after the last match
GapOk(e, k, h) ==
    IF k = Len(e.pieces) THEN h = NoHit
    ELSE h # NoHit /\ e.pieces[k + 1].hit /\ h.segment.start = e.pieces[k].end

\* the k-th piece is the match h found from the cursor, and its node is the match's
HitOk(e, k, h) ==
    /\ h # NoHit
    /\ h.segment.start = e.pieces[k].start
    /\ h.segment.start + h.segment.length = e.pieces[k].end
    /\ e.nodes[k] = h.value

PartitionOk(e) ==
    /\ Len(e.nodes) = Len(e.pieces)
    /\ IF e.length = 0 THEN e.pieces = <<>>
       ELSE /\ e.pieces # <<>>
            /\ e.pieces[1].start = e.start
            /\ e.pieces[Len(e.pieces)].end = e.start + e.length
    /\ \A k \in 1..Len(e.pieces) :
         /\ e.pieces[k].start < e.pieces[k].end
         /\ k < Len(e.pieces) => e.pieces[k].end = e.pieces[k + 1].start
         /\ IF e.pieces[k].hit
            THEN HitOk(e, k, HitAt(e, CursorAt(e.pieces, k)))
            ELSE /\ e.nodes[k] = TextNode(Slice(markdown, e.pieces[k].start, e.pieces[k].end))
                 /\ GapOk(e, k, HitAt(e, e.pieces[k].start))

\* C2: the nodes a call of _match_all returns stand for consecutive spans that cover the
\* segment from its start to its end, none empty: a span is the next match found from the
\* cursor, with the match's node, or the gap before it or the tail after the last match, with
\* a Text node of exactly the characters of the span.
C2_MatchAllPartitions == Done => \A e \in MatchAllEvents : PartitionOk(e)

C2_Witness ==
    /\ Done
    /\ \E e \in MatchAllEvents :
         /\ Len(e.pieces) >= 3
         /\ ~e.pieces[1].hit /\ e.pieces[2].hit /\ ~e.pieces[3].hit

\* no call of _parse, running or returned, is deeper than the cap, no matcher is applied at a
\* depth beyond it, and each match found moved the cursor forward
DepthBounded ==
    /\ \A k \in 1..Len(stack) : stack[k].depth <= _MAX_DEPTH
    /\ \A c \in DOMAIN returned : c.depth <= _MAX_DEPTH
    /\ \A e \in AggregateEvents : e.depth <= _MAX_DEPTH
    /\ \A e \in MatchAllEvents :
         /\ e.depth <= _MAX_DEPTH
         /\ \A k \in 1..Len(e.pieces) :
              e.pieces[k].hit => e.pieces[k].end > CursorAt(e.pieces, k)

\* the matchers _parse is called with
Matchers == {_NODE_MATCHER, _MINIMAL_NODE_MATCHER, _BOLD_MATCHER, _UNDERLINE_MATCHER}
\* how many calls of _parse within the cap there are: a depth, a span of the text, a matcher
CallsPossible ==
    (_MAX_DEPTH + 1) * Cardinality(Matchers)
      * (((Len(markdown) + 1) * (Len(markdown) + 2)) \div 2)
\* a bound on the steps left: two for each call that has not returned, one of them taken by
\* each call that is running
Rank == 2 * (CallsPossible - Cardinality(DOMAIN returned)) - Len(stack)

\* C3: parse and parse_minimal return for every text: every step, a call of _parse made or
\* returning, lowers the bound Rank on the steps left, which is never negative; the calls of
\* _parse never nest deeper than _MAX_DEPTH, no matcher runs at a depth above it, and every
\* match _match_all finds moves its cursor forward.
C3_TerminatesWithinDepth ==
    /\ [](DepthBounded /\ Rank >= 0)
    /\ [][Rank' < Rank]_vars

C3_Witness == Len(stack) = _MAX_DEPTH + 1 /\ stack[Len(stack)].depth = _MAX_DEPTH

\* what a call at the cap returns: one Text node of the segment as it is, no matcher applied
Verbatim(c) ==
    [nodes |-> <<TextNode(Slice(markdown, c.start, c.start + c.length))>>, log |-> NoLog]

\* C4: a call of _parse at depth _MAX_DEPTH applies no matcher and returns exactly one Text
\* node whose text is its segment, markers and all; it returns, it does not fail.
C4_CapGivesVerbatimText ==
    /\ \A c \in DOMAIN returned : c.depth >= _MAX_DEPTH => returned[c] = Verbatim(c)
    /\ stack # <<>> /\ stack[Len(stack)].depth >= _MAX_DEPTH
         => Running = Verbatim(stack[Len(stack)])
    /\ Done => \A c \in DOMAIN returned :
                 \A k \in 1..Len(returned[c].log.calls) :
                    returned[c].log.calls[k] \in DOMAIN returned

C4_Witness ==
    \E c \in DOMAIN returned :
       /\ c.depth = _MAX_DEPTH
       /\ ">" \in Chars(returned[c].nodes[1].text)

\* the matchers of the minimal pipeline
MinimalNames == {_MINIMAL_NODE_MATCHER.matchers[i] : i \in 1..Len(_MINIMAL_NODE_MATCHER.matchers)}

\* the span from start to stop is, whole, one token of the minimal pipeline
IsToken(start, stop) ==
    \E name \in MinimalNames :
       Matcher(name, 1, _Segment(markdown, start, stop - start)).hit.segment
         = _Segment(markdown, start, stop - start)

MinimalOnly(r) ==
    /\ \A k \in 1..Len(r.nodes) :
         \/ r.nodes[k].type \in {"TextNode", "MentionNode", "TimestampNode"}
         \/ r.nodes[k].type = "EmojiNode" /\ r.nodes[k].id # <<>>
    /\ r.log.calls = <<>>
    /\ \A e \in r.log.match_all :
         /\ e.nodes = r.nodes
         /\ \A k \in 1..Len(e.pieces) :
              IF e.pieces[k].hit THEN IsToken(e.pieces[k].start, e.pieces[k].end)
              ELSE e.nodes[k] = TextNode(Slice(markdown, e.pieces[k].start, e.pieces[k].end))

\* the minimal parse has returned
MinimalDone == Done /\ parse_minimal(markdown) \in DOMAIN returned

\* C5: parse_minimal returns a flat list of Text, Mention, custom Emoji and Timestamp nodes
\* and nothing else; the nodes other than Text stand for whole tokens of the minimal
\* pipeline, and everything between them is in Text nodes character for character.
C5_MinimalOnlyTokens == MinimalDone => MinimalOnly(returned[parse_minimal(markdown)])

C5_Witness ==
    /\ MinimalDone
    /\ \E k, l \in 1..Len(returned[parse_minimal(markdown)].nodes) :
         /\ returned[parse_minimal(markdown)].nodes[k].type = "MentionNode"
         /\ returned[parse_minimal(markdown)].nodes[l].type = "TextNode"
         /\ "*" \in Chars(returned[parse_minimal(markdown)].nodes[l].text)

\* no mention, custom emoji or timestamp token occurs in the text
TokenFree(text) ==
    \A name \in MinimalNames :
       IF name \in StringMatchers
       THEN FindFrom(text, Needle(name), 0, Len(text)) < 0
       ELSE Search(Pattern(name), text, 0, Len(text)).start < 0

\* C6 as stated: parse_minimal of any text without a token is one Text node equal to the text.
C6_TokenFreeIsOneText ==
    MinimalDone /\ TokenFree(markdown)
      => returned[parse_minimal(markdown)].nodes = <<TextNode(markdown)>>

\* C6, amended: parse_minimal of any text that is not empty and has no token is one Text node
\* equal to the text; of the empty text it is the empty list.
C6_NonEmptyTokenFreeIsOneText ==
    MinimalDone /\ TokenFree(markdown)
      => returned[parse_minimal(markdown)].nodes
           = IF markdown = <<>> THEN <<>> ELSE <<TextNode(markdown)>>

C6_Witness ==
    /\ MinimalDone
    /\ TokenFree(markdown)
    /\ "*" \in Chars(markdown)
    /\ returned[parse_minimal(markdown)].nodes = <<TextNode(markdown)>>

(***************************************************************************)
(* Properties of the renderers.                                            *)
(***************************************************************************)
Returned(t) == tasks[t].state = "returned"
PlainReturned(t) == tasks[t].mode = "plain" /\ Returned(t)

\* the call of _match_all that parse_minimal(text) makes: its nodes, and the span of each
MinimalPieces(r) == CHOOSE e \in r.log.match_all : TRUE
Minimal(text) ==
    MinimalPieces(_parse(0, _Segment(text, 0, Len(text)), _MINIMAL_NODE_MATCHER))

RECURSIVE Replaced(_, _, _, _)
\* the text with each token replaced in place by its rendering, from the k-th piece on
Replaced(text, pieces, renderings, k) ==
    IF k > Len(pieces) THEN <<>>
    ELSE (IF pieces[k].hit THEN renderings[k]
          ELSE Slice(text, pieces[k].start, pieces[k].end))
           \o Replaced(text, pieces, renderings, k + 1)

\* the plain-text rendering of a token
TokenRendering(ctx, tz, node) ==
    CASE node.type = "EmojiNode" -> <<":">> \o node.name \o <<":">>
      [] node.type = "MentionNode" -> PlainText_visit_mention(ctx, node)
      [] node.type = "TimestampNode" ->
           IF node.instant = <<>> THEN InvalidDate
           ELSE format_date(ctx, tz, node.instant,
                            IF node.format # "" THEN node.format ELSE "g").text
      [] OTHER -> <<>>

PreservesText(task, e) ==
    /\ e.nodes = task.nodes
    /\ task.buffer =
         Replaced(task.markdown, e.pieces,
                  [k \in 1..Len(e.nodes) |-> TokenRendering(context, world.tz, e.nodes[k])], 1)
    /\ TokenFree(task.markdown) => task.buffer = task.markdown

\* C7: what a plain-text render returns is the text given with each mention, custom-emoji
\* and timestamp token replaced in place by its rendering, a custom emoji by :name:, and every
\* other character as it is and where it is; of a text without such a token it is the text.
C7_PlainTextPreservesText ==
    \A t \in DOMAIN tasks :
       PlainReturned(t) => PreservesText(tasks[t], Minimal(tasks[t].markdown))

C7_Witness ==
    \E t \in DOMAIN tasks :
       /\ PlainReturned(t)
       /\ ~TokenFree(tasks[t].markdown)
       /\ {"*", ":", "@"} \subseteq Chars(tasks[t].buffer)
       /\ tasks[t].buffer # tasks[t].markdown

\* the context resolves nothing: it holds no channel, no role and no member, and the client
\* has no member to give
ResolvesNothing ==
    /\ context._channels = <<>>
    /\ context._roles = <<>>
    /\ world.members = <<>>
    /\ \A id \in DOMAIN context._members : context._members[id] = None

Placeholder(kind) ==
    CASE kind = "user" -> Unknown
      [] kind = "channel" -> DeletedChannel
      [] kind = "role" -> DeletedRole

RECURSIVE Mentioned(_)
\* the kinds of the user, channel and role mentions among the nodes and below them
Mentioned(nodes) ==
    UNION {IF nodes[k].type = "MentionNode"
           THEN {nodes[k].kind} \cap {"user", "channel", "role"}
           ELSE IF nodes[k].type = "ListNode" THEN Mentioned(nodes[k].items)
           ELSE IF nodes[k].type \in {"FormattingNode", "HeadingNode", "ListItemNode", "LinkNode"}
                THEN Mentioned(nodes[k].children)
           ELSE {} : k \in 1..Len(nodes)}

Contains(text, part) ==
    \E i \in 0..(Len(text) - Len(part)) : SubSeq(text, i + 1, i + Len(part)) = part

NeverRaises == \A t \in DOMAIN tasks : tasks[t].state # "raised"
DegradesToPlaceholders ==
    \A t \in DOMAIN tasks :
       Returned(t) =>
         \A kind \in Mentioned(tasks[t].nodes) : Contains(tasks[t].buffer, Placeholder(kind))
Deterministic ==
    \A t, u \in DOMAIN tasks :
       /\ Returned(t) /\ Returned(u)
       /\ tasks[t].mode = tasks[u].mode
       /\ tasks[t].markdown = tasks[u].markdown
       /\ tasks[t].is_jumbo_allowed = tasks[u].is_jumbo_allowed
       => tasks[t].buffer = tasks[u].buffer

\* C8: against a context that resolves nothing, no render, hypertext or plain, raises; every
\* user, channel and role mention is written as its placeholder (Unknown, deleted-channel,
\* deleted-role); and two renders of one text return the same string.
C8_NothingResolvedNeverRaises ==
    ResolvesNothing => NeverRaises /\ DegradesToPlaceholders /\ Deterministic

\* what C9 has a mention rendered as: the name when the context holds an entry under the id
Claimed(ctx, node) ==
    CASE node.type # "MentionNode" -> TokenRendering(ctx, "+00:00", node)
      [] node.type = "MentionNode" /\ node.kind = "user" ->
           PlainText_user(try_get_member(ctx, node.target_id))
      [] node.type = "MentionNode" /\ node.kind = "channel" ->
           PlainText_channel(try_get_channel(ctx, node.target_id))
      [] node.type = "MentionNode" /\ node.kind = "role" ->
           PlainText_role(try_get_role(ctx, node.target_id))
      [] OTHER -> PlainText_visit_mention(ctx, node)

\* the task rendered nothing but mentions and the text between them
OnlyMentions(task) ==
    \A k \in 1..Len(task.nodes) : task.nodes[k].type \in {"TextNode", "MentionNode"}

ResolvesHeld(task, e) ==
    task.buffer =
      Replaced(task.markdown, e.pieces,
               [k \in 1..Len(e.nodes) |-> Claimed(context, e.nodes[k])], 1)

\* C9: in plain text a mention of any id the token syntax accepts is written as "@" and the
\* display name, "#" and the channel name (and " [voice]" for a voice channel) or "@" and the
\* role name when the context holds a member, a channel or a role under the id, and as the
\* placeholder only when it holds none.
C9_PlainMentionResolvesHeldIds ==
    \A t \in DOMAIN tasks :
       PlainReturned(t) /\ OnlyMentions(tasks[t])
         => ResolvesHeld(tasks[t], Minimal(tasks[t].markdown))

RECURSIVE InOrder(_, _, _, _), InOrderOf(_, _, _, _, _)
\* what visiting the items depth-first, left to right, writes when every lookup returns at
\* once; a visit that raises writes nothing
InOrder(task, ctx, w, items) ==
    IF items = <<>> THEN <<>>
    ELSE InOrderOf(task, ctx, w, items[1], Effect(task, ctx, w.tz, items[1]))
           \o InOrder(task, ctx, w, Tail(items))

InOrderOf(task, ctx, w, item, e) ==
    CASE e.kind = "write" -> e.text
      [] e.kind = "around" ->
           e.opening \o InOrder(task, ctx, w, visit_many(e.children)) \o e.closing
      [] e.kind = "await" ->
           Effect(task, Stored(ctx, e.lookup, Answer(w, e.lookup)), w.tz,
                  ToFinish(item.node,
                           IF e.lookup.kind = "asset" THEN Answer(w, e.lookup) ELSE <<>>)).text
      [] e.kind = "raise" -> <<>>

\* C10: what a render has written, while it awaits a lookup and when it returns, is what a
\* depth-first, left-to-right visit of its nodes writes up to where the render is, every
\* lookup returning at once: nothing of a later sibling is written before the lookup of a
\* node returns, however late that is and whatever other renders do in between.
C10_OutputInDocumentOrder ==
    \A t \in DOMAIN tasks :
       tasks[t].state \in {"awaiting", "returned"}
         => tasks[t].buffer \o InOrder(tasks[t], context, world, tasks[t].todo)
              = InOrder(tasks[t], context, world, visit_many(tasks[t].nodes))

\* a render is suspended between what it has written and its later siblings, while another,
\* resumed before, is suspended again
C10_Witness ==
    \E t, u \in DOMAIN tasks :
       /\ t # u
       /\ tasks[t].state = "awaiting" /\ tasks[t].buffer # <<>> /\ Len(tasks[t].todo) > 1
       /\ tasks[u].state = "awaiting" /\ tasks[u].awaits >= 2

\* the call, of those made for the id, that stored last
StoredLast(t, id) ==
    /\ tasks[t].member_id = id
    /\ tasks[t].turn > 0
    /\ \A u \in DOMAIN tasks : tasks[u].member_id = id => tasks[u].turn <= tasks[t].turn

\* C11: calls of populate_member and populate_member_by_id that run concurrently on one
\* context may each go to the client for the same id, but no member stored is lost: at every
\* moment, and so after the calls for an id have completed, try_get_member gives for the id
\* the member that the call which resolved last for it has stored.
C11_LastResolvedIsVisible ==
    \A id \in Ids : \A t \in DOMAIN tasks :
       StoredLast(t, id) => try_get_member(context, id) = tasks[t].resolved

\* two calls went to the client for one id while the cache had no entry for it, resolved
\* differently, and have completed
C11_Witness ==
    \E t, u \in DOMAIN tasks :
       /\ tasks[t].member_id = tasks[u].member_id
       /\ tasks[t].state = "returned" /\ tasks[u].state = "returned"
       /\ tasks[t].awaits = 1 /\ tasks[u].awaits = 1
       /\ 0 < tasks[t].turn /\ tasks[t].turn < tasks[u].turn
       /\ t \in tasks[u].during
       /\ tasks[t].resolved # tasks[u].resolved
       /\ try_get_member(context, tasks[u].member_id) = tasks[u].resolved

Image == "<img loading=\"lazy\" class=\"chatlog__emoji "
Large == "chatlog__emoji--large"

\* the message is emoji and blank text and nothing else
SolelyEmoji(nodes) ==
    \A k \in 1..Len(nodes) :
       nodes[k].type # "EmojiNode" =>
         nodes[k].type = "TextNode" /\ \A j \in 1..Len(nodes[k].text) : nodes[k].text[j] \in WhiteSpace

\* every image written carries the large class, or none does
AllLarge(buffer) ==
    \A k \in 1..Len(buffer) : buffer[k] = Image => k < Len(buffer) /\ buffer[k + 1] = Large
NoneLarge(buffer) == \A k \in 1..Len(buffer) : buffer[k] # Large

Visiting(t) == tasks[t].state \in {"awaiting", "returned"}

\* C12: the images of the emoji that a hypertext render writes carry the large class, all of
\* them, when jumbo is allowed for the call and the nodes of the message are emoji and blank
\* text only; when jumbo is not allowed, or the message has any other node or a text that is
\* not blank, none of them does.
C12_JumboIffSolelyEmoji ==
    \A t \in DOMAIN tasks :
       tasks[t].mode = "html" /\ Visiting(t) =>
         IF tasks[t].is_jumbo_allowed /\ SolelyEmoji(tasks[t].nodes)
         THEN AllLarge(tasks[t].buffer)
         ELSE NoneLarge(tasks[t].buffer)

\* a message of two emoji with a blank between them has been rendered, jumbo allowed, and
\* both images are large
C12_Witness ==
    \E t \in DOMAIN tasks :
       /\ tasks[t].mode = "html" /\ Returned(t) /\ tasks[t].is_jumbo_allowed
       /\ \E k \in 1..Len(tasks[t].nodes) : tasks[t].nodes[k].type = "TextNode"
       /\ Cardinality({k \in 1..Len(tasks[t].buffer) : tasks[t].buffer[k] = Large}) = 2
       /\ AllLarge(tasks[t].buffer)

\* the characters that html.escape replaces
Special == {"&", "<", ">", "\"", "'"}

\* no character of the message is in the output as one of the special characters: what the
\* renderer itself writes of markup is written in pieces longer than one character
Escaped(buffer) == \A k \in 1..Len(buffer) : buffer[k] \notin Special

\* C13: no character of the message reaches the output of a hypertext render unescaped:
\* the text runs, code contents, link urls, emoji names and codes and resolved names are all
\* written HTML-encoded.
C13_HtmlOutputIsEscaped ==
    \A t \in DOMAIN tasks : tasks[t].mode = "html" /\ Visiting(t) => Escaped(tasks[t].buffer)

\* the tokens of the text that have the form of a timestamp, in order, as parse_minimal
\* finds them
TimestampTokens(text, e) ==
    LET spans == SelectSeq(e.pieces,
                           LAMBDA p : p.hit /\ Slice(text, p.start, p.start + 3) = <<"<", "t", ":">>)
    IN  [k \in 1..Len(spans) |-> Slice(text, spans[k].start + 3, spans[k].end - 1)]

\* the tokens of the text; a text without <t: has none
TokensOf(text) ==
    IF \A k \in 1..(Len(text) - 2) : SubSeq(text, k, k + 2) # <<"<", "t", ":">> THEN <<>>
    ELSE TimestampTokens(text, Minimal(text))

\* the style code of a token <t:epoch> or <t:epoch:code>, given without its brackets, and
\* its epoch
CodeOf(token) == IF Len(token) > 2 /\ token[Len(token) - 1] = ":" THEN token[Len(token)] ELSE ""
EpochOf(token) == IF CodeOf(token) = "" THEN token ELSE SubSeq(token, 1, Len(token) - 2)

StyleCodes == {"t", "T", "d", "D", "f", "F"}
RelativeCodes == {"r", "R"}

\* the code is not one of the alphabet, or the epoch is outside datetime.min .. datetime.max
InvalidToken(token) ==
    \/ CodeOf(token) \notin StyleCodes \cup RelativeCodes \cup {""}
    \/ ~IsValidEpoch(IntOf(EpochOf(token)))

\* the number of places of the text where part is
Occurrences(text, part) ==
    Cardinality({i \in 0..(Len(text) - Len(part)) : SubSeq(text, i + 1, i + Len(part)) = part})

TimestampNodes(task) == _extract_nodes_of_type(task.nodes, "TimestampNode")

InvalidRendersInvalidDate(task, tokens, nodes) ==
    /\ Len(nodes) = Len(tokens)
    /\ \A k \in 1..Len(tokens) : InvalidToken(tokens[k]) <=> nodes[k] = TIMESTAMP_INVALID
    /\ Occurrences(task.buffer, InvalidDate)
         = Cardinality({k \in 1..Len(tokens) : InvalidToken(tokens[k])})

\* C14: a timestamp token whose code is not of the alphabet, or whose epoch is no point in
\* time, is parsed to the Invalid sentinel, by parse and by parse_minimal, and a render that
\* returns has written "Invalid date" for it, once for each such token, in hypertext as in
\* plain text.
C14_InvalidTimestampIsInvalidDate ==
    \A t \in DOMAIN tasks :
       Returned(t) =>
         InvalidRendersInvalidDate(tasks[t], TokensOf(tasks[t].markdown),
                                   TimestampNodes(tasks[t]))

\* a message with a token of an epoch too large and a token of an unknown code has been
\* rendered in both modes
C14_WitnessIn(mode) ==
    \E t \in DOMAIN tasks :
       /\ Returned(t) /\ tasks[t].mode = mode
       /\ Occurrences(tasks[t].buffer, InvalidDate) = 2
       /\ \E k \in 1..Len(tasks[t].nodes) : tasks[t].nodes[k] = TIMESTAMP_INVALID
       /\ LET tokens == TokensOf(tasks[t].markdown)
          IN  \E i, j \in 1..Len(tokens) :
                 /\ CodeOf(tokens[i]) \notin StyleCodes \cup RelativeCodes \cup {""}
                 /\ ~IsValidEpoch(IntOf(EpochOf(tokens[j])))

C14_Witness == C14_WitnessIn("html")

Finished(t) == tasks[t].state \in {"returned", "raised"}

\* the nodes that the parser of the mode returns for the text
NodesOf(mode, text) ==
    _parse(0, _Segment(text, 0, Len(text)),
           IF mode = "html" THEN _NODE_MATCHER ELSE _MINIMAL_NODE_MATCHER).nodes

\* a token with one of the two codes of relative time, and an epoch that is a point in time
RelativeToken(token) == CodeOf(token) \in RelativeCodes /\ IsValidEpoch(IntOf(EpochOf(token)))

\* <t:epoch>
WithoutCode(token) == <<"<", "t", ":">> \o EpochOf(token) \o <<">">>

\* the text with the code of each relative token taken away
WithoutRelativeCodes(text, e) ==
    Replaced(text, e.pieces,
             [k \in 1..Len(e.pieces) |->
                LET token == Slice(text, e.pieces[k].start + 3, e.pieces[k].end - 1)
                IN  IF Slice(text, e.pieces[k].start, e.pieces[k].start + 3) = <<"<", "t", ":">>
                       /\ RelativeToken(token)
                    THEN WithoutCode(token)
                    ELSE Slice(text, e.pieces[k].start, e.pieces[k].end)], 1)

\* how the render of the text ends, when it runs without a nested parse and without suspending
Outcome(task, text) ==
    Run(Formatting(Task(task.mode, text, task.is_jumbo_allowed), NodesOf(task.mode, text)),
        context, world.tz)

SameOutcome(task, other) ==
    task.state = other.state /\ task.buffer = other.buffer /\ task.error = other.error

\* no node holds other nodes: no parse was nested in the parse of the text
Flat(nodes) ==
    \A k \in 1..Len(nodes) : get_children(nodes[k]) = <<>> /\ nodes[k].type # "ListNode"

RelativeIsDefault(task, tokens, nodes) ==
    /\ Len(nodes) = Len(tokens)
    /\ \A k \in 1..Len(tokens) :
         RelativeToken(tokens[k]) =>
           /\ nodes[k] = TimestampNode(IntOf(EpochOf(tokens[k])), "")
           /\ <<nodes[k]>> = NodesOf(task.mode, WithoutCode(tokens[k]))
    /\ /\ task.awaits = 0 /\ Flat(task.nodes)
       /\ \E k \in 1..Len(tokens) : RelativeToken(tokens[k])
       =>
         SameOutcome(task, Outcome(task, WithoutRelativeCodes(task.markdown,
                                                              Minimal(task.markdown))))

\* C15: a timestamp token with the code r or R and an epoch that is a point in time is
\* parsed to the Timestamp node of that instant without a format, the node that the token
\* without a code is parsed to, and never to the Invalid sentinel; the render of a text, in
\* hypertext and in plain text, ends as the render of the text with these codes taken away
\* (compared for the renders that do not suspend, of texts without nested markup).
C15_RelativeCodesAreDefault ==
    \A t \in DOMAIN tasks :
       Finished(t) =>
         RelativeIsDefault(tasks[t], TokensOf(tasks[t].markdown), TimestampNodes(tasks[t]))

\* a message with <t:5:r>, <t:5:R> and <t:5> has been rendered, and the three are rendered
\* alike
C15_Witness ==
    \E t \in DOMAIN tasks :
       /\ Returned(t) /\ tasks[t].mode = "html"
       /\ LET tokens == TokensOf(tasks[t].markdown)
          IN  /\ {CodeOf(tokens[k]) : k \in 1..Len(tokens)} = {"r", "R", ""}
              /\ \A k \in 1..Len(tokens) : TimestampNodes(tasks[t])[k] = TimestampNodes(tasks[t])[1]
       /\ Occurrences(tasks[t].buffer, <<"</span>">>) = 3
       /\ tasks[t].buffer # <<>>

\* the characters that are no markup: letters, digits and blanks
PlainChars == AsciiLetters \cup Digits \cup WhiteSpace

\* the text is ***x*** for a non-empty x without markup characters
IsBoth(text) ==
    /\ Len(text) > 6
    /\ \A k \in 1..Len(text) :
         IF k <= 3 \/ k > Len(text) - 3 THEN text[k] = "*" ELSE text[k] \in PlainChars

ItalicOfBoldOf(x) == <<FormattingNode("italic", <<FormattingNode("bold", <<TextNode(x)>>)>>)>>

\* C16: parse("***x***"), x a non-empty text of letters, digits and blanks, returns one
\* Formatting(Italic) node whose only child is a Formatting(Bold) node whose only child is
\* Text(x): the combined form is taken before the plain forms that match at the same place.
C16_ItalicBoldBeforePlainForms ==
    Done /\ IsBoth(markdown) /\ parse(markdown) \in DOMAIN returned =>
      returned[parse(markdown)].nodes = ItalicOfBoldOf(SubSeq(markdown, 4, Len(markdown) - 3))

\* ***both*** has been parsed, the bold matcher as well matching the whole of it
C16_Witness ==
    /\ Done /\ markdown = Both(<<"b", "o", "t", "h">>)
    /\ parse(markdown) \in DOMAIN returned
    /\ returned[parse(markdown)].nodes = ItalicOfBoldOf(<<"b", "o", "t", "h">>)
    /\ Matcher("bold", 1, _Segment(markdown, 0, Len(markdown))).hit.segment
         = _Segment(markdown, 0, Len(markdown))

\* the positions where a line of the text starts, and the last position of the line at i
\* (its line break, or the end of the text)
LineStarts(text) == {i \in 1..Len(text) : i = 1 \/ text[i - 1] = "\n"}
LineEnd(text, i) ==
    IF \E j \in i..Len(text) : text[j] = "\n"
    THEN CHOOSE j \in i..Len(text) : text[j] = "\n" /\ \A k \in i..(j - 1) : text[k] # "\n"
    ELSE Len(text)

\* the line at i starts with the marker of a single-line quote: > and a blank
QuoteLine(text, i) ==
    i \in LineStarts(text) /\ i < Len(text) /\ text[i] = ">" /\ text[i + 1] \in {" ", "\t"}

\* the first quoted line of the text, and the lines of the run of quoted lines it starts
FirstQuoteLine(text) ==
    CHOOSE i \in LineStarts(text) :
      QuoteLine(text, i) /\ \A j \in LineStarts(text) : j < i => ~QuoteLine(text, j)
QuoteRun(text) ==
    {i \in LineStarts(text) :
       /\ i >= FirstQuoteLine(text)
       /\ \A j \in LineStarts(text) : FirstQuoteLine(text) <= j /\ j <= i => QuoteLine(text, j)}
LastQuoteLine(text) == CHOOSE i \in QuoteRun(text) : \A j \in QuoteRun(text) : j <= i

\* the text has two or more consecutive quoted lines, with nothing but plain text around them
HasQuoteRun(text) ==
    /\ \E i \in LineStarts(text) : QuoteLine(text, i)
    /\ Cardinality(QuoteRun(text)) >= 2
    /\ \A k \in 1..Len(text) :
         k < FirstQuoteLine(text) \/ k > LineEnd(text, LastQuoteLine(text)) => text[k] \in PlainChars

\* the parsed contents of the quoted line at i: what the marker is followed by, line break included
LineContents(text, i) ==
    returned[ParseCall(1, _Segment(text, i + 1, LineEnd(text, i) - i - 1), _NODE_MATCHER)].nodes

RECURSIVE ContentsFrom(_, _, _)
\* the parsed contents of the quoted lines from the one at i to the one at last, in line order
ContentsFrom(text, i, last) ==
    IF i > last THEN <<>>
    ELSE LineContents(text, i) \o ContentsFrom(text, LineEnd(text, i) + 1, last)

\* the text nodes of the plain text from position a to position b
PlainText(text, a, b) == IF a > b THEN <<>> ELSE <<TextNode(SubSeq(text, a, b))>>

\* C17: two or more consecutive lines that each start with the marker of a single-line quote
\* are parsed to a single Formatting(Quote) node, whose children are the parsed contents of
\* all these lines concatenated in line order; there is not one Quote node for each line.
C17_RepeatedQuoteLinesAreOneQuote ==
    Done /\ parse(markdown) \in DOMAIN returned /\ HasQuoteRun(markdown) =>
      returned[parse(markdown)].nodes =
        PlainText(markdown, 1, FirstQuoteLine(markdown) - 1)
          \o <<FormattingNode("quote", ContentsFrom(markdown, FirstQuoteLine(markdown),
                                                    LastQuoteLine(markdown)))>>
          \o PlainText(markdown, LineEnd(markdown, LastQuoteLine(markdown)) + 1, Len(markdown))

\* "> line one\n> line two\n" has been parsed to one quote of the two lines' texts
C17_Witness ==
    /\ Done /\ parse(markdown) \in DOMAIN returned
    /\ HasQuoteRun(markdown) /\ QuoteRun(markdown) = {1, 12} /\ Len(markdown) = 22
    /\ returned[parse(markdown)].nodes =
         <<FormattingNode("quote", <<TextNode(SubSeq(markdown, 3, 11)),
                                     TextNode(SubSeq(markdown, 14, 22))>>)>>

\* the nodes a node holds: the children of a container, the items of a list
Held(node) ==
    IF "children" \in DOMAIN node THEN node.children
    ELSE IF "items" \in DOMAIN node THEN node.items
    ELSE <<>>

RECURSIVE PathsOf(_), NodeAt(_, _)
\* the places of a tree: the path of a node is its index in nodes, or the path of the node that
\* holds it followed by its index in that node
PathsOf(nodes) ==
    UNION {{<<i>>} \cup {<<i>> \o p : p \in PathsOf(Held(nodes[i]))} : i \in 1..Len(nodes)}
NodeAt(nodes, path) ==
    IF Len(path) = 1 THEN nodes[path[1]] ELSE NodeAt(Held(nodes[path[1]]), Tail(path))

\* depth-first document order: a node before the nodes it holds, and these before what follows
Precedes(p, q) ==
    \/ Len(p) < Len(q) /\ SubSeq(q, 1, Len(p)) = p
    \/ \E k \in 1..Len(p) :
         /\ k <= Len(q) /\ p[k] < q[k]
         /\ \A j \in 1..(k - 1) : p[j] = q[j]

\* the places of the nodes of one variant, and the number of the place in document order
PlacesOf(nodes, node_type) == {p \in PathsOf(nodes) : NodeAt(nodes, p).type = node_type}
NumberOf(places, p) == 1 + Cardinality({q \in places : Precedes(q, p)})

\* result is the nodes at these places, each once, in document order
InDocumentOrder(result, nodes, places) ==
    /\ Len(result) = Cardinality(places)
    /\ \A p \in places : result[NumberOf(places, p)] = NodeAt(nodes, p)

\* the nodes of a finished parse of the text
Parsed == returned[parse(markdown)].nodes

\* C18: extract_emojis and extract_links return every node of their variant in the parsed tree
\* exactly once, in depth-first document order, the nodes held by formatting, headings, lists,
\* list items and links included, and return nothing else.
C18_ExtractIsEveryNodeOnceInOrder ==
    Done /\ parse(markdown) \in DOMAIN returned =>
      /\ InDocumentOrder(extract_emojis(Parsed), Parsed, PlacesOf(Parsed, "EmojiNode"))
      /\ InDocumentOrder(extract_links(Parsed), Parsed, PlacesOf(Parsed, "LinkNode"))

\* a finished parse with emoji in a heading, in a link in formatting in an item of a list, and
\* after it; and links in two items, one of them in formatting
C18_Witness ==
    /\ Done /\ parse(markdown) \in DOMAIN returned
    /\ Len(extract_emojis(Parsed)) = 3
    /\ Len(extract_links(Parsed)) = 2
    /\ PlacesOf(Parsed, "EmojiNode") = {<<1, 2>>, <<2, 2, 1, 1, 1>>, <<2, 2, 3>>}
    /\ PlacesOf(Parsed, "LinkNode") = {<<2, 1, 2>>, <<2, 2, 1, 1>>}
    /\ extract_emojis(Parsed)[1] = extract_emojis(Parsed)[2]

\* C19: after populate_member(user) has completed, try_get_member(user.id) returns a member,
\* the member of the guild or the fallback built from the user, whatever calls of
\* populate_member and populate_member_by_id were made on the context before.
C19_PopulateMemberGivesMember ==
    \A t \in DOMAIN tasks :
       tasks[t].state = "returned" /\ tasks[t].fallback_user # None =>
         try_get_member(context, tasks[t].member_id) # None

\* the call went to the client
Invoked(t) == tasks[t].awaits > 0
\* one of the two calls was made while the other was awaiting the client for the same id
Overlapped(t, u) == t \in tasks[u].during \/ u \in tasks[t].during

Failures == {"ConnectError", "HTTPStatusError", "ValueError", "ReadError", "OSError"}

\* C21: resolve_asset_url returns exactly the url it was given whenever the resolution has
\* failed, for whatever reason, and no failure leaves it as an error; with the download of
\* media disabled it returns the url given and the downloader is never made or called.
C21_FailureReturnsInput ==
    \A t \in DOMAIN tasks :
       /\ tasks[t].state # "raised"
       /\ tasks[t].failed \in Failures => tasks[t].state = "returned" /\ tasks[t].result = tasks[t].url
       /\ ~context.request.should_download_media =>
            /\ context._downloader = None
            /\ ~tasks[t].invoked /\ tasks[t].requests = 0
            /\ tasks[t].state = "returned" => tasks[t].result = tasks[t].url

\* three calls have returned the url given to them: one whose body exceeded the cap, one
\* whose response was an error status, one whose connection was lost
C21_Witness ==
    \E t, u, v \in DOMAIN tasks :
       /\ tasks[t].failed = "ValueError" /\ tasks[u].failed = "HTTPStatusError"
       /\ tasks[v].failed = "ReadError"
       /\ \A c \in {t, u, v} : tasks[c].state = "returned" /\ tasks[c].result = tasks[c].url

\* the result of the call is a local path, not the url given
Local(t) == tasks[t].state = "returned" /\ tasks[t].result # tasks[t].url

Ended(t) == tasks[t].state \in {"returned", "raised"}

\* nothing is held or waited for: the semaphore has its full value, no lock is locked
Released ==
    context._downloader # None =>
      /\ context._downloader._semaphore = Semaphore(world.max_concurrency)
      /\ \A key \in DOMAIN context._downloader._locks : context._downloader._locks[key] = Lock

\* the steps a call can still take: to the semaphore, to the lock, to the request, to the
\* response, through the bursts of its body to its end
StepsLeft(call) ==
    CASE call.state = "created" -> MaxBursts + 5
      [] call.state = "semaphore" -> MaxBursts + 4
      [] call.state = "lock" -> MaxBursts + 3
      [] call.state = "connecting" -> MaxBursts + 2
      [] call.state = "receiving" -> MaxBursts + 1 - call.bursts
      [] OTHER -> 0

RECURSIVE StepsLeftOf(_, _)
StepsLeftOf(calls, n) == IF n = 0 THEN 0 ELSE StepsLeft(calls[n]) + StepsLeftOf(calls, n - 1)

\* C30: of any calls of download that run concurrently, with equal and with distinct urls,
\* none waits forever for the semaphore or for the lock of its file: as long as a call has
\* not ended some call can take a step (a call is made or runs again, or a transfer delivers
\* or fails: the conditions under which the steps of the calls are taken), every
\* step brings the calls nearer to their end, and when all have returned or raised what
\* they acquired has been released.
C30_EveryCallEnds ==
    /\ [](\A t \in DOMAIN tasks :
            ~Ended(t) =>
              \E u \in DOMAIN tasks :
                 CanResolve(u) \/ HasSemaphore(u) \/ HasLock(u) \/ CanRespond(u) \/ CanReceive(u))
    /\ [][StepsLeftOf(tasks', Len(tasks)) < StepsLeftOf(tasks, Len(tasks))]_vars
    /\ []((\A t \in DOMAIN tasks : Ended(t)) => Released)

\* two calls wait, one for the semaphore and one for the lock of its file, while a third
\* receives its body
C30_Witness ==
    \E t, u, v \in DOMAIN tasks :
       /\ tasks[t].state = "receiving"
       /\ tasks[u].state = "lock" /\ tasks[v].state = "semaphore"

(***************************************************************************)
(* Properties of the export of a channel.                                  *)
(***************************************************************************)

\* the files that exist, and what was written of a kind, in the order of the writing
Files == {world.log[k].file_path : k \in 1..Len(world.log)}
Written(piece) == SelectSeq(world.log, LAMBDA io : io.op = "write" /\ io.piece = piece)
WrittenTo(file_path, piece) ==
    SelectSeq(Written(piece), LAMBDA io : io.file_path = file_path)

\* export has closed the exporter
Closed == tasks.state = "ended" /\ context.request.channel.kind # "GUILD_FORUM"
\* every export_message that was called has returned
NoneRaised == tasks.raised \in {"", "ChannelEmptyError"}

FilesFor(count, limit) == IF count = 0 THEN 1 ELSE (count + limit - 1) \div limit

Ops(file_path) == SelectSeq(world.log, LAMBDA io : io.file_path = file_path)
IsPiece(io, pieces) == io.op = "write" /\ io.piece \in pieces
MessagePieces == {"message", "part of a message"}

\* opened, the preamble, then messages only
Begun(ops) ==
    /\ Len(ops) >= 2
    /\ ops[1].op = "open"
    /\ IsPiece(ops[2], {"preamble"})
    /\ \A k \in 3..Len(ops) : IsPiece(ops[k], MessagePieces)

\* opened, the preamble, messages, the postamble, closed
Complete(ops) ==
    /\ Len(ops) >= 4
    /\ ops[1].op = "open"
    /\ IsPiece(ops[2], {"preamble"})
    /\ \A k \in 3..(Len(ops) - 2) : IsPiece(ops[k], MessagePieces)
    /\ IsPiece(ops[Len(ops) - 1], {"postamble"})
    /\ ops[Len(ops)].op = "close"

\* the number of files open after the first k operations
OpenAfter(k) ==
    Len(SelectSeq(SubSeq(world.log, 1, k), LAMBDA io : io.op = "open"))
        - Len(SelectSeq(SubSeq(world.log, 1, k), LAMBDA io : io.op = "close"))

EmptyFile(file_path) ==
    <<Io("open", file_path, "", 0), Io("write", file_path, "preamble", 0),
      Io("write", file_path, "postamble", 0), Io("close", file_path, "", 0)>>

\* C24: when the exporter is closed and export_message was never called (the channel
\* is empty, the period holds no message, the filter let none through), exactly one
\* file has been made, the file of partition 0, with the preamble and the postamble;
\* so it is when export raises ChannelEmptyError.
C24_EmptyExportMakesOneFile ==
    /\ (Closed /\ Written("message") = <<>> /\ Written("part of a message") = <<>>) =>
          world.log = EmptyFile(context.request.output_file_path)
    /\ (tasks.state = "ended" /\ tasks.raised = "ChannelEmptyError") =>
          world.log = EmptyFile(context.request.output_file_path)

\* export has raised ChannelEmptyError for a period before the channel was made
C24_Witness ==
    /\ tasks.state = "ended"
    /\ tasks.raised = "ChannelEmptyError"
    /\ context.request.before = <<1>>
    /\ ~is_empty(context.request.channel)
    /\ Files = {context.request.output_file_path}

(***************************************************************************)
(* The aggregate matcher without its early exit: every matcher of the list *)
(* is evaluated, and the earliest match, the first listed among those at   *)
(* one offset, is kept.                                                    *)
(***************************************************************************)
RECURSIVE ExhaustiveLoop(_, _, _, _, _), ExhaustiveStep(_, _, _, _, _, _)
ExhaustiveLoop(matchers, i, depth, segment, earliest) ==
    IF i > Len(matchers) THEN earliest
    ELSE ExhaustiveStep(matchers, i, depth, segment, earliest,
                        Matcher(matchers[i], depth, segment).hit)
ExhaustiveStep(matchers, i, depth, segment, earliest, hit) ==
    ExhaustiveLoop(matchers, i + 1, depth, segment,
                   IF hit = NoHit THEN earliest ELSE Earlier(earliest, hit))
Exhaustive(e) ==
    ExhaustiveLoop(e.matchers, 1, e.depth, _Segment(markdown, e.start, e.length), NoHit)

\* C25: every call of the aggregate matcher returned what the evaluation of all its
\* matchers, without the early exit, selects.
C25_EarlyExitKeepsTheResult ==
    Done => \A e \in AggregateEvents : e.hit = Exhaustive(e)

\* the matcher of the list whose match the call e returned, the first that has it
ReturnedBy(e, hits) ==
    CHOOSE i \in DOMAIN hits :
       hits[i] = e.hit /\ \A j \in 1..(i - 1) : hits[j] # e.hit

\* the call stopped early at a match at the start of its segment, and a matcher it
\* never evaluated has a match in the segment, one of them at the same offset
SkippedAMatch(e, hits) ==
    /\ e.hit # NoHit
    /\ e.hit.segment.start = e.start
    /\ \E j, k \in (ReturnedBy(e, hits) + 1)..Len(e.matchers) :
          /\ hits[j] # NoHit /\ hits[j].segment.start > e.start
          /\ hits[k] # NoHit /\ hits[k].segment.start = e.start

C25_Witness == Done /\ \E e \in AggregateEvents : SkippedAMatch(e, Hits(e))

\* the span start .. stop lies in the span from .. to
Within(start, stop, from, to) == from <= start /\ start <= stop /\ stop <= to
\* 0 <= start <= start + length <= len(source)
InSource(start, length) == Within(start, start + length, 0, Len(markdown))

\* the match hit of a matcher that was given the segment of e: a segment of the same
\* source, in the source, and in the segment given
HitInSegment(e, hit) ==
    hit # NoHit =>
       /\ hit.segment.source = markdown
       /\ InSource(hit.segment.start, hit.segment.length)
       /\ Within(hit.segment.start, end(hit.segment), e.start, e.start + e.length)

\* the spans of the matches the matchers of the call c of _parse found: those of every
\* matcher of the aggregate, or the matched pieces when c has a single matcher
MatchSpans(c, r) ==
    IF c.matcher.aggregate
    THEN {<<h.segment.start, end(h.segment)>> :
             h \in UNION {{Hits(e)[i] : i \in 1..Len(e.matchers)} : e \in r.log.aggregate}
                      \ {NoHit}}
    ELSE UNION {{<<e.pieces[k].start, e.pieces[k].end>> :
                    k \in {k \in 1..Len(e.pieces) : e.pieces[k].hit}} : e \in r.log.match_all}

\* the segment of the call n that a transform made in the call c: in the source, in the
\* segment of c, and in the match the transform was given
DerivedInside(c, n, spans) ==
    /\ InSource(n.start, n.length)
    /\ Within(n.start, n.start + n.length, c.start, c.start + c.length)
    /\ \E span \in spans : Within(n.start, n.start + n.length, span[1], span[2])

\* C26: in a parse, every segment (the one of each call of _parse, the one each matcher
\* is given, the one of each match) satisfies 0 <= start <= start + length <=
\* len(source) and is of the source parsed; the segment a matcher is given lies in the
\* segment of the call of _parse, the segment of a nested call lies in the match it was
\* taken from, and every match of a pattern or literal matcher lies in the segment the
\* matcher was given.
C26_SegmentsStayInside ==
    Done =>
       /\ \A c \in DOMAIN returned :
             /\ InSource(c.start, c.length)
             /\ \A e \in returned[c].log.aggregate \cup returned[c].log.match_all :
                   Within(e.start, e.start + e.length, c.start, c.start + c.length)
             /\ \A k \in 1..Len(returned[c].log.calls) :
                   DerivedInside(c, returned[c].log.calls[k], MatchSpans(c, returned[c]))
       /\ \A e \in AggregateEvents :
             /\ InSource(e.start, e.length)
             /\ \A i \in 1..Len(e.matchers) : HitInSegment(e, Hits(e)[i])
       /\ \A e \in MatchAllEvents :
             /\ InSource(e.start, e.length)
             /\ \A k \in 1..Len(e.pieces) :
                   Within(e.pieces[k].start, e.pieces[k].end, e.start, e.start + e.length)

\* a nested call on a segment strictly inside a match that does not start at the start
\* of the source nor end at its end, the match of a matcher given the rest of a segment
C26_Witness ==
    /\ Done
    /\ \E c \in DOMAIN returned :
          \E k \in 1..Len(returned[c].log.calls) :
             \E span \in MatchSpans(c, returned[c]) :
                /\ 0 < span[1] /\ span[2] < Len(markdown)
                /\ span[1] < returned[c].log.calls[k].start
                /\ returned[c].log.calls[k].start + returned[c].log.calls[k].length < span[2]
                /\ c.start < span[1]

(***************************************************************************)
(* Properties of the request with retries.                                 *)
(***************************************************************************)
\* the outcomes after which the sentence lets another attempt be made
RetryableResponse(outcome) ==
    /\ ~outcome.failed
    /\ outcome.result.status_code \in {429, 408} \/ outcome.result.status_code >= 500
TransientError(outcome) ==
    /\ outcome.failed
    /\ outcome.exception.type
          \in {"ConnectTimeout", "ReadTimeout", "ConnectError", "ReadError"}
Attempted == world.requests > 0

\* C27: a call sends at most 8 requests; it sends another only after a response with
\* status 429, 408 or >= 500 or after a timeout or network error; and a response with
\* any other status is returned at once: the call has returned with it, and no
\* further request is sent.
C27_AtMostEightAttempts ==
    /\ [](world.requests <= 8 /\ world.requests <= tasks.attempt_number)
    /\ [][world.requests' > world.requests =>
             (~Attempted \/ RetryableResponse(tasks.outcome) \/ TransientError(tasks.outcome))
         ]_vars
    /\ []((Attempted /\ ~tasks.outcome.failed /\ ~RetryableResponse(tasks.outcome)) =>
             tasks.state = "returned")
    /\ [][tasks.state = "returned" => UNCHANGED vars]_vars

\* the eighth attempt, after seven that were retried, got 200 and the call returned
C27_Witness ==
    /\ world.requests = 8
    /\ tasks.state = "returned"
    /\ tasks.outcome.result.status_code = 200

(***************************************************************************)
(* Properties of get_messages.                                             *)
(***************************************************************************)
IterationEnded == tasks.state = "ended"

\* the messages yielded are in the order of their ids, oldest first, none later than the
\* last message found at the start; the cursors of the pages asked for grow
YieldedInOrder ==
    /\ \A k \in 1..(Len(world.yielded) - 1) :
          /\ world.yielded[k].id < world.yielded[k + 1].id
          /\ world.yielded[k].timestamp <= world.yielded[k + 1].timestamp
    /\ \A k \in 1..Len(world.yielded) :
          world.yielded[k].timestamp <= tasks.last_message.timestamp
    /\ \A k \in 1..(Len(world.requested) - 1) :
          world.requested[k] < world.requested[k + 1]

\* C28: get_messages yields its messages oldest first, asks for each page after a
\* cursor greater than the one before, yields no message later than the last message
\* of the channel found when the iteration began, and, iterated on, ends, whatever
\* messages arrive meanwhile.
C28_IterationIsBoundedBySnapshot == [](YieldedInOrder) /\ <>(IterationEnded)

\* an iteration of three pages has ended at a message that arrived after its start,
\* having yielded the three messages that were there
C28_Witness ==
    /\ IterationEnded
    /\ tasks.raised = ""
    /\ Len(world.yielded) = 3
    /\ Len(world.requested) = 3
    /\ tasks.messages # <<>>
    /\ tasks.messages[1].timestamp > tasks.last_message.timestamp
    /\ tasks.messages[1].id \notin {2 ^ 22, 2 ^ 22 + 1, 2 * 2 ^ 22}

====
